---- MODULE Spec2Model ----
(***************************************************************************)
(* Planet Builder: parameter validation, derived properties and the        *)
(* application handlers that edit the current planet.                      *)
(*                                                                         *)
(* JavaScript values are records [t, m, e, s]: t is the kind, and a finite *)
(* number is the decimal m * 10^e (m has no trailing zero), so that 1e20,  *)
(* 1e40 and 0.006 are all exact; arithmetic is exact decimal arithmetic,   *)
(* not IEEE-754 rounding.                                                  *)
(***************************************************************************)
EXTENDS Integers, Sequences, FiniteSets, TLC

(***************************************************************************)
(* JavaScript values                                                       *)
(***************************************************************************)
Undefined == [t |-> "undefined", m |-> 0, e |-> 0, s |-> ""]
Null == [t |-> "null", m |-> 0, e |-> 0, s |-> ""]
NaN == [t |-> "NaN", m |-> 0, e |-> 0, s |-> ""]
PosInfinity == [t |-> "Infinity", m |-> 0, e |-> 0, s |-> ""]
NegInfinity == [t |-> "-Infinity", m |-> 0, e |-> 0, s |-> ""]
Str(s) == [t |-> "string", m |-> 0, e |-> 0, s |-> s]

RECURSIVE Pow10(_)
Pow10(k) == IF k <= 0 THEN 1 ELSE 10 * Pow10(k - 1)

Abs(i) == IF i < 0 THEN -i ELSE i

\* number of decimal digits of a positive integer
RECURSIVE NumDigits(_)
NumDigits(i) == IF i < 10 THEN 1 ELSE 1 + NumDigits(i \div 10)

\* the finite number m * 10^e, mantissa normalised (no trailing zeros)
RECURSIVE Num(_, _)
Num(m, e) ==
  IF m = 0 THEN [t |-> "number", m |-> 0, e |-> 0, s |-> ""]
  ELSE IF m % 10 = 0 THEN Num(m \div 10, e + 1)
  ELSE [t |-> "number", m |-> m, e |-> e, s |-> ""]

Zero == Num(0, 0)

IsFinite(v) == v.t = "number"

\* typeof v === 'number'
TypeofNumber(v) == v.t \in {"number", "NaN", "Infinity", "-Infinity"}

\* !v  (ToBoolean(v) is false)
Falsy(v) ==
  \/ v.t \in {"undefined", "null", "NaN"}
  \/ v.t = "number" /\ v.m = 0
  \/ v.t = "string" /\ v.s = ""

\* ToNumber(v) for the kinds of value modelled; a non-empty string is one
\* that does not parse as a number
ToNumber(v) ==
  CASE v.t = "undefined" -> NaN
    [] v.t = "null" -> Zero
    [] v.t = "string" -> IF v.s = "" THEN Zero ELSE NaN
    [] OTHER -> v

\* position of the leading digit of a non-zero finite number
Magnitude(v) == NumDigits(Abs(v.m)) + v.e

\* -1, 0, 1 as a < b, a = b, a > b, for positive finite numbers
ComparePositive(a, b) ==
  IF Magnitude(a) # Magnitude(b)
    THEN (IF Magnitude(a) < Magnitude(b) THEN -1 ELSE 1)
    ELSE LET emin == IF a.e < b.e THEN a.e ELSE b.e
             am == a.m * Pow10(a.e - emin)
             bm == b.m * Pow10(b.e - emin)
         IN IF am < bm THEN -1 ELSE IF am = bm THEN 0 ELSE 1

Sign(v) ==
  CASE v.t = "Infinity" -> 1
    [] v.t = "-Infinity" -> -1
    [] OTHER -> IF v.m > 0 THEN 1 ELSE IF v.m < 0 THEN -1 ELSE 0

\* -1, 0, 1 for two numbers that are not NaN
Compare(a, b) ==
  IF a.t # "number" \/ b.t # "number"
    THEN (IF a.t = b.t THEN 0
          ELSE IF a.t = "-Infinity" \/ b.t = "Infinity" THEN -1 ELSE 1)
  ELSE IF Sign(a) # Sign(b) THEN (IF Sign(a) < Sign(b) THEN -1 ELSE 1)
  ELSE IF Sign(a) = 0 THEN 0
  ELSE IF Sign(a) > 0 THEN ComparePositive(a, b)
  ELSE ComparePositive([b EXCEPT !.m = -b.m], [a EXCEPT !.m = -a.m])

\* the relational operators a < b, a <= b, a > b, a >= b (false when either
\* operand converts to NaN)
JsLt(a, b) ==
  LET x == ToNumber(a)
      y == ToNumber(b)
  IN x.t # "NaN" /\ y.t # "NaN" /\ Compare(x, y) < 0

JsLe(a, b) ==
  LET x == ToNumber(a)
      y == ToNumber(b)
  IN x.t # "NaN" /\ y.t # "NaN" /\ Compare(x, y) <= 0

JsGt(a, b) == JsLt(b, a)

JsGe(a, b) == JsLe(b, a)

(***************************************************************************)
(* Number::toString, as a template literal formats a number                *)
(***************************************************************************)
DigitChars == <<"0", "1", "2", "3", "4", "5", "6", "7", "8", "9">>

RECURSIVE DigitString(_)
DigitString(i) ==
  IF i < 10 THEN DigitChars[i + 1]
  ELSE DigitString(i \div 10) \o DigitChars[(i % 10) + 1]

RECURSIVE Zeros(_)
Zeros(k) == IF k <= 0 THEN "" ELSE "0" \o Zeros(k - 1)

\* the first k characters and the rest of a digit string of an integer
HeadDigits(i, k) == DigitString(i \div Pow10(NumDigits(i) - k))

TailDigits(i, k) ==
  LET r == NumDigits(i) - k
      t == i % Pow10(r)
  IN Zeros(r - NumDigits(t)) \o DigitString(t)

PositiveToString(v) ==
  LET k == NumDigits(v.m)
      n == Magnitude(v)
  IN IF k <= n /\ n <= 21 THEN DigitString(v.m) \o Zeros(n - k)
     ELSE IF 0 < n /\ n <= 21 THEN HeadDigits(v.m, n) \o "." \o TailDigits(v.m, n)
     ELSE IF -6 < n /\ n <= 0 THEN "0." \o Zeros(-n) \o DigitString(v.m)
     ELSE LET x == n - 1
              es == IF x < 0 THEN "-" \o DigitString(-x) ELSE "+" \o DigitString(x)
          IN IF k = 1 THEN DigitString(v.m) \o "e" \o es
             ELSE HeadDigits(v.m, 1) \o "." \o TailDigits(v.m, 1) \o "e" \o es

NumberToString(v) ==
  CASE v.t = "NaN" -> "NaN"
    [] v.t = "Infinity" -> "Infinity"
    [] v.t = "-Infinity" -> "-Infinity"
    [] OTHER -> IF v.m = 0 THEN "0"
                ELSE IF v.m < 0 THEN "-" \o PositiveToString([v EXCEPT !.m = -v.m])
                ELSE PositiveToString(v)

\* Array.prototype.join over a sequence of strings
RECURSIVE Join(_, _)
Join(strs, sep) ==
  IF strs = <<>> THEN ""
  ELSE IF Len(strs) = 1 THEN strs[1]
  ELSE strs[1] \o sep \o Join(Tail(strs), sep)

(***************************************************************************)
(* Constants.js                                                            *)
(***************************************************************************)
PARAMETER_RANGES ==
  [mass |-> [min |-> Num(1, 20), max |-> Num(1, 30)],
   radius |-> [min |-> Num(100, 0), max |-> Num(100000, 0)],
   density |-> [min |-> Num(500, 0), max |-> Num(15000, 0)],
   rotationRate |-> [min |-> Num(1, -1), max |-> Num(1000, 0)],
   axialTilt |-> [min |-> Num(0, 0), max |-> Num(180, 0)]]

EARTH ==
  [mass |-> Num(5972, 21), radius |-> Num(6371, 0), density |-> Num(5515, 0),
   gravity |-> Num(981, -2), rotationRate |-> Num(24, 0),
   axialTilt |-> Num(235, -1), escapeVelocity |-> Num(112, -1)]

MARS ==
  [mass |-> Num(64171, 19), radius |-> Num(33895, -1), density |-> Num(3934, 0),
   gravity |-> Num(371, -2), rotationRate |-> Num(246, -1),
   axialTilt |-> Num(252, -1), escapeVelocity |-> Num(503, -2)]

JUPITER ==
  [mass |-> Num(1898, 24), radius |-> Num(69911, 0), density |-> Num(1326, 0),
   gravity |-> Num(2479, -2), rotationRate |-> Num(99, -1),
   axialTilt |-> Num(313, -2), escapeVelocity |-> Num(595, -1)]

MOON ==
  [mass |-> Num(7342, 19), radius |-> Num(17374, -1), density |-> Num(3344, 0),
   gravity |-> Num(162, -2), rotationRate |-> Num(6557, -1),
   axialTilt |-> Num(668, -2), escapeVelocity |-> Num(238, -2)]

PhysicalFields == <<"mass", "radius", "density", "rotationRate", "axialTilt">>

(***************************************************************************)
(* PhysicalParams.js                                                       *)
(***************************************************************************)
\* the argument of a call: an object with the five properties (Undefined for
\* an absent key), or the value undefined or null itself
ObjectArg(mass, radius, density, rotationRate, axialTilt) ==
  [kind |-> "object", mass |-> mass, radius |-> radius, density |-> density,
   rotationRate |-> rotationRate, axialTilt |-> axialTilt]

NonObjectArg(kind) ==
  [kind |-> kind, mass |-> Undefined, radius |-> Undefined, density |-> Undefined,
   rotationRate |-> Undefined, axialTilt |-> Undefined]

\* the unit of density, "kg/m" followed by a superscript three (U+00B3) in the
\* source, is written "kg/m^3"
RangeMessage(label, range, unit) ==
  label \o " must be between " \o NumberToString(range.min) \o " and "
        \o NumberToString(range.max) \o " " \o unit

\* CheckMass with the range test exclusive at both bounds
CheckMassExclusive(params) ==
  IF Falsy(params.mass) \/ ~TypeofNumber(params.mass)
    THEN <<"Mass must be a number">>
  ELSE IF JsLe(params.mass, Zero)
    THEN <<"Mass must be positive">>
  ELSE IF JsLe(params.mass, PARAMETER_RANGES.mass.min)
          \/ JsGe(params.mass, PARAMETER_RANGES.mass.max)
    THEN <<RangeMessage("Mass", PARAMETER_RANGES.mass, "kg")>>
  ELSE <<>>

CheckMass(params) ==
  IF Falsy(params.mass) \/ ~TypeofNumber(params.mass)
    THEN <<"Mass must be a number">>
  ELSE IF JsLe(params.mass, Zero)
    THEN <<"Mass must be positive">>
  ELSE IF JsLt(params.mass, PARAMETER_RANGES.mass.min)
          \/ JsGt(params.mass, PARAMETER_RANGES.mass.max)
    THEN <<RangeMessage("Mass", PARAMETER_RANGES.mass, "kg")>>
  ELSE <<>>

CheckRadius(params) ==
  IF Falsy(params.radius) \/ ~TypeofNumber(params.radius)
    THEN <<"Radius must be a number">>
  ELSE IF JsLe(params.radius, Zero)
    THEN <<"Radius must be positive">>
  ELSE IF JsLt(params.radius, PARAMETER_RANGES.radius.min)
          \/ JsGt(params.radius, PARAMETER_RANGES.radius.max)
    THEN <<RangeMessage("Radius", PARAMETER_RANGES.radius, "km")>>
  ELSE <<>>

CheckDensity(params) ==
  IF Falsy(params.density) \/ ~TypeofNumber(params.density)
    THEN <<"Density must be a number">>
  ELSE IF JsLe(params.density, Zero)
    THEN <<"Density must be positive">>
  ELSE IF JsLt(params.density, PARAMETER_RANGES.density.min)
          \/ JsGt(params.density, PARAMETER_RANGES.density.max)
    THEN <<RangeMessage("Density", PARAMETER_RANGES.density, "kg/m^3")>>
  ELSE <<>>

CheckRotationRate(params) ==
  IF Falsy(params.rotationRate) \/ ~TypeofNumber(params.rotationRate)
    THEN <<"Rotation rate must be a number">>
  ELSE IF JsLe(params.rotationRate, Zero)
    THEN <<"Rotation rate must be positive">>
  ELSE IF JsLt(params.rotationRate, PARAMETER_RANGES.rotationRate.min)
          \/ JsGt(params.rotationRate, PARAMETER_RANGES.rotationRate.max)
    THEN <<RangeMessage("Rotation rate", PARAMETER_RANGES.rotationRate, "hours")>>
  ELSE <<>>

CheckAxialTilt(params) ==
  IF params.axialTilt.t = "undefined" \/ ~TypeofNumber(params.axialTilt)
    THEN <<"Axial tilt must be a number">>
  ELSE IF JsLt(params.axialTilt, PARAMETER_RANGES.axialTilt.min)
          \/ JsGt(params.axialTilt, PARAMETER_RANGES.axialTilt.max)
    THEN <<RangeMessage("Axial tilt", PARAMETER_RANGES.axialTilt, "degrees")>>
  ELSE <<>>

\* the outcome of a call: a returned {isValid, errors}, or a thrown error
\* (reading a property of undefined or null throws a TypeError)
validatePhysicalParams(params) ==
  IF params.kind # "object"
    THEN [threw |-> "TypeError", isValid |-> FALSE, errors |-> <<>>]
    ELSE LET errors == CheckMass(params) \o CheckRadius(params)
                       \o CheckDensity(params) \o CheckRotationRate(params)
                       \o CheckAxialTilt(params)
         IN [threw |-> "none", isValid |-> (Len(errors) = 0), errors |-> errors]

NoInstance ==
  [mass |-> Undefined, radius |-> Undefined, density |-> Undefined,
   rotationRate |-> Undefined, axialTilt |-> Undefined]

\* the constructor reporting only its first violation
PhysicalParametersNewFirstOnly(arg) ==
  IF arg.kind # "object"
    THEN [threw |-> "TypeError", message |-> "", created |-> FALSE,
          instance |-> NoInstance]
    ELSE LET validation == validatePhysicalParams(
                 ObjectArg(arg.mass, arg.radius, arg.density,
                           arg.rotationRate, arg.axialTilt))
         IN IF ~validation.isValid
              THEN [threw |-> "Error",
                    message |-> "Invalid parameters: " \o validation.errors[1],
                    created |-> FALSE, instance |-> NoInstance]
              ELSE [threw |-> "none", message |-> "", created |-> TRUE,
                    instance |-> [mass |-> arg.mass, radius |-> arg.radius,
                                  density |-> arg.density,
                                  rotationRate |-> arg.rotationRate,
                                  axialTilt |-> arg.axialTilt]]

\* the constructor keeping every key of its argument (Object.assign(this, arg))
PhysicalParametersNewKeepsArg(arg) ==
  IF arg.kind # "object"
    THEN [threw |-> "TypeError", message |-> "", created |-> FALSE,
          instance |-> NoInstance]
    ELSE LET validation == validatePhysicalParams(arg)
         IN IF ~validation.isValid
              THEN [threw |-> "Error",
                    message |-> "Invalid parameters: " \o Join(validation.errors, ", "),
                    created |-> FALSE, instance |-> NoInstance]
              ELSE [threw |-> "none", message |-> "", created |-> TRUE,
                    instance |-> [k \in DOMAIN arg \ {"kind"} |-> arg[k]]]

\* new PhysicalParameters(arg): the thrown error (name and message) or the
\* instance; destructuring undefined or null throws a TypeError
PhysicalParametersNew(arg) ==
  IF arg.kind # "object"
    THEN [threw |-> "TypeError", message |-> "", created |-> FALSE,
          instance |-> NoInstance]
    ELSE LET validation == validatePhysicalParams(
                 ObjectArg(arg.mass, arg.radius, arg.density,
                           arg.rotationRate, arg.axialTilt))
         IN IF ~validation.isValid
              THEN [threw |-> "Error",
                    message |-> "Invalid parameters: " \o Join(validation.errors, ", "),
                    created |-> FALSE, instance |-> NoInstance]
              ELSE [threw |-> "none", message |-> "", created |-> TRUE,
                    instance |-> [mass |-> arg.mass, radius |-> arg.radius,
                                  density |-> arg.density,
                                  rotationRate |-> arg.rotationRate,
                                  axialTilt |-> arg.axialTilt]]

(***************************************************************************)
(* Arithmetic used by the composition code                                 *)
(***************************************************************************)
Neg(v) ==
  CASE v.t = "Infinity" -> NegInfinity
    [] v.t = "-Infinity" -> PosInfinity
    [] v.t = "number" -> Num(-v.m, v.e)
    [] OTHER -> v

\* a + b on numbers (operands converted with ToNumber; null counts as 0,
\* undefined as NaN)
Add(a, b) ==
  LET x == ToNumber(a)
      y == ToNumber(b)
  IN IF x.t = "NaN" \/ y.t = "NaN" THEN NaN
     ELSE IF x.t # "number" /\ y.t # "number" THEN (IF x.t = y.t THEN x ELSE NaN)
     ELSE IF x.t # "number" THEN x
     ELSE IF y.t # "number" THEN y
     ELSE LET emin == IF x.e < y.e THEN x.e ELSE y.e
          IN Num(x.m * Pow10(x.e - emin) + y.m * Pow10(y.e - emin), emin)

Sub(a, b) == Add(a, Neg(ToNumber(b)))

\* Math.abs
MathAbs(v) ==
  LET x == ToNumber(v)
  IN IF x.t = "-Infinity" THEN PosInfinity
     ELSE IF x.t = "number" THEN Num(Abs(x.m), x.e)
     ELSE x

\* Math.max of two values
MathMax(a, b) ==
  LET x == ToNumber(a)
      y == ToNumber(b)
  IN IF x.t = "NaN" \/ y.t = "NaN" THEN NaN
     ELSE IF Compare(x, y) >= 0 THEN x ELSE y

\* v / 10^k and v * c for a small integer c, exact in decimal
ShiftDown(v, k) == IF v.t = "number" THEN Num(v.m, v.e - k) ELSE v

\* Number.prototype.toFixed(d) of a number below 1e21: the decimal rounded to
\* d places, a tie going away from zero
ToFixed(v, d) ==
  IF v.t # "number" THEN NumberToString(v)
  ELSE IF v.e >= 0
    THEN (IF v.m < 0 THEN "-" ELSE "") \o DigitString(Abs(v.m)) \o Zeros(v.e)
         \o (IF d = 0 THEN "" ELSE "." \o Zeros(d))
  ELSE LET a == Abs(v.m)
           drop == -(v.e + d)
           scaled == IF drop <= 0 THEN a * Pow10(-drop)
                     ELSE IF drop > NumDigits(a) THEN 0
                     ELSE (a \div Pow10(drop))
                          + (IF 2 * (a % Pow10(drop)) >= Pow10(drop) THEN 1 ELSE 0)
           ip == scaled \div Pow10(d)
           fp == scaled % Pow10(d)
           body == IF d = 0 THEN DigitString(ip)
                   ELSE DigitString(ip) \o "." \o Zeros(d - NumDigits(fp))
                        \o DigitString(fp)
       IN IF v.m < 0 THEN "-" \o body ELSE body

\* v || d
OrElse(v, d) == IF Falsy(v) THEN d ELSE v

\* a * b on numbers
Mul(a, b) ==
  LET x == ToNumber(a)
      y == ToNumber(b)
  IN IF x.t = "NaN" \/ y.t = "NaN" THEN NaN
     ELSE IF x.t = "number" /\ y.t = "number" THEN Num(x.m * y.m, x.e + y.e)
     ELSE IF Sign(x) = 0 \/ Sign(y) = 0 THEN NaN
     ELSE IF Sign(x) = Sign(y) THEN PosInfinity ELSE NegInfinity

\* v rounded to d decimals, a tie going away from zero: parseFloat(v.toFixed(d)),
\* and the precision kept for a result that has no finite decimal expansion
RoundTo(v, d) ==
  IF v.t # "number" \/ v.e >= -d THEN v
  ELSE LET a == Abs(v.m)
           drop == -(v.e + d)
           q == IF drop > NumDigits(a) THEN 0
                ELSE (a \div Pow10(drop))
                     + (IF 2 * (a % Pow10(drop)) >= Pow10(drop) THEN 1 ELSE 0)
       IN Num(IF v.m < 0 THEN -q ELSE q, -d)

\* Math.log, the natural logarithm to four decimals, at the arguments the
\* pressures of the model lead to; ln(1) is exactly 0
MathLog(v) ==
  LET x == ToNumber(v)
  IN CASE x.t = "NaN" -> NaN
       [] x.t = "Infinity" -> PosInfinity
       [] x.t = "-Infinity" -> NaN
       [] x.t = "number" /\ x.m < 0 -> NaN
       [] x.t = "number" /\ x.m = 0 -> NegInfinity
       [] x = Num(6, -3) -> Num(-51160, -4)
       [] x = Num(1, -2) -> Num(-46052, -4)
       [] x = Num(5, -1) -> Num(-6931, -4)
       [] x = Num(1, 0) -> Zero
       [] x = Num(2, 0) -> Num(6931, -4)
       [] x = Num(1, 1) -> Num(23026, -4)
       [] x = Num(92, 0) -> Num(45218, -4)
       [] x = Num(1, 2) -> Num(46052, -4)

(***************************************************************************)
(* Composition mappings: an ordered mapping gas -> percentage is a         *)
(* sequence of entries in insertion order; mapping objects live in a heap  *)
(* so that two holders of one object see each other's writes               *)
(***************************************************************************)
Entry(gas, pct) == [gas |-> gas, pct |-> pct]

HasKey(mapping, gas) == \E i \in 1..Len(mapping) : mapping[i].gas = gas

\* mapping[gas], Undefined when the key is absent
Get(mapping, gas) ==
  IF HasKey(mapping, gas)
    THEN mapping[CHOOSE i \in 1..Len(mapping) : mapping[i].gas = gas].pct
    ELSE Undefined

\* mapping[gas] = pct: an existing key keeps its place, a new key goes last
Put(mapping, gas, pct) ==
  IF HasKey(mapping, gas)
    THEN [i \in 1..Len(mapping) |->
            IF mapping[i].gas = gas THEN Entry(gas, pct) ELSE mapping[i]]
    ELSE Append(mapping, Entry(gas, pct))

\* Object.values(mapping).reduce((sum, val) => sum + val, 0)
RECURSIVE SumFrom(_, _)
SumFrom(acc, mapping) ==
  IF mapping = <<>> THEN acc
  ELSE SumFrom(Add(acc, mapping[1].pct), Tail(mapping))

SumValues(mapping) == SumFrom(Zero, mapping)

NoComposition == "undefined"

DefaultComposition ==
  <<Entry("N2", Num(78, 0)), Entry("O2", Num(21, 0)), Entry("Ar", Num(93, -2)),
    Entry("CO2", Num(4, -2)), Entry("other", Num(3, -2))>>

(***************************************************************************)
(* CompositionParams.js                                                    *)
(***************************************************************************)
\* an argument {atmosphere, water, surface}; a sub-object that is absent has
\* present = FALSE, an absent key is Undefined, and atmosphere.composition is
\* the heap id of the mapping object or NoComposition
CompositionArg(atmosphere, water, surface) ==
  [atmosphere |-> atmosphere, water |-> water, surface |-> surface]

Atmosphere(composition, pressure, thickness) ==
  [present |-> TRUE, composition |-> composition, pressure |-> pressure,
   thickness |-> thickness]

Water(coverage, depth, iceCaps) ==
  [present |-> TRUE, coverage |-> coverage, depth |-> depth, iceCaps |-> iceCaps]

Surface(albedo, temperature) ==
  [present |-> TRUE, albedo |-> albedo, temperature |-> temperature]

NoAtmosphere ==
  [present |-> FALSE, composition |-> NoComposition, pressure |-> Undefined,
   thickness |-> Undefined]

NoWater ==
  [present |-> FALSE, coverage |-> Undefined, depth |-> Undefined,
   iceCaps |-> Undefined]

NoSurface == [present |-> FALSE, albedo |-> Undefined, temperature |-> Undefined]

Hundred == Num(100, 0)

RECURSIVE CheckGases(_)
CheckGases(mapping) ==
  IF mapping = <<>> THEN <<>>
  ELSE (IF JsLt(mapping[1].pct, Zero) \/ JsGt(mapping[1].pct, Hundred)
          THEN <<mapping[1].gas \o " percentage must be between 0 and 100">>
          ELSE <<>>)
       \o CheckGases(Tail(mapping))

\* the sum check with a tolerance that excludes a difference of exactly 1
CheckCompositionBelowOne(mapping) ==
  LET total == SumValues(mapping)
  IN (IF JsGe(MathAbs(Sub(total, Hundred)), Num(1, 0))
        THEN <<"Atmospheric composition must sum to 100% (currently "
               \o ToFixed(total, 1) \o "%)">>
        ELSE <<>>)
     \o CheckGases(mapping)

CheckComposition(mapping) ==
  LET total == SumValues(mapping)
  IN (IF JsGt(MathAbs(Sub(total, Hundred)), Num(1, 0))
        THEN <<"Atmospheric composition must sum to 100% (currently "
               \o ToFixed(total, 1) \o "%)">>
        ELSE <<>>)
     \o CheckGases(mapping)

CheckPressure(atmosphere) ==
  IF atmosphere.pressure.t # "undefined"
    THEN (IF JsLt(atmosphere.pressure, Zero) \/ JsGt(atmosphere.pressure, Hundred)
            THEN <<"Atmospheric pressure must be between 0 and 100 atm">>
            ELSE <<>>)
    ELSE <<"Atmospheric pressure is required">>

CheckThickness(atmosphere) ==
  IF atmosphere.thickness.t # "undefined"
    THEN (IF JsLt(atmosphere.thickness, Zero)
             \/ JsGt(atmosphere.thickness, Num(1000, 0))
            THEN <<"Atmospheric thickness must be between 0 and 1000 km">>
            ELSE <<>>)
    ELSE <<"Atmospheric thickness is required">>

CheckAtmosphere(atmosphere, heap) ==
  IF ~atmosphere.present THEN <<"Atmosphere parameters are required">>
  ELSE (IF atmosphere.composition # NoComposition
          THEN CheckComposition(heap[atmosphere.composition])
          ELSE <<>>)
       \o CheckPressure(atmosphere) \o CheckThickness(atmosphere)

CheckWater(water) ==
  IF ~water.present THEN <<"Water parameters are required">>
  ELSE (IF JsLt(water.coverage, Zero) \/ JsGt(water.coverage, Hundred)
          THEN <<"Water coverage must be between 0 and 100%">> ELSE <<>>)
       \o (IF JsLt(water.depth, Zero) \/ JsGt(water.depth, Hundred)
             THEN <<"Water depth must be between 0 and 100 km">> ELSE <<>>)
       \o (IF JsLt(water.iceCaps, Zero) \/ JsGt(water.iceCaps, Hundred)
             THEN <<"Ice caps must be between 0 and 100%">> ELSE <<>>)

CheckSurface(surface) ==
  IF ~surface.present THEN <<"Surface parameters are required">>
  ELSE (IF JsLt(surface.albedo, Zero) \/ JsGt(surface.albedo, Num(1, 0))
          THEN <<"Albedo must be between 0 and 1">> ELSE <<>>)
       \o (IF JsLt(surface.temperature, Zero)
              \/ JsGt(surface.temperature, Num(1000, 0))
             THEN <<"Temperature must be between 0 and 1000 K">> ELSE <<>>)

\* the validator stopping at its first violation
validateCompositionParamsFirstOnly(arg, heap) ==
  LET errors == CheckAtmosphere(arg.atmosphere, heap) \o CheckWater(arg.water)
                \o CheckSurface(arg.surface)
  IN [threw |-> "none", isValid |-> (Len(errors) = 0),
      errors |-> IF errors = <<>> THEN <<>> ELSE <<errors[1]>>]

validateCompositionParams(arg, heap) ==
  LET errors == CheckAtmosphere(arg.atmosphere, heap) \o CheckWater(arg.water)
                \o CheckSurface(arg.surface)
  IN [threw |-> "none", isValid |-> (Len(errors) = 0), errors |-> errors]

NoCompositionInstance ==
  [atmosphere |-> [composition |-> NoComposition, pressure |-> Undefined,
                   thickness |-> Undefined],
   water |-> [coverage |-> Undefined, depth |-> Undefined, iceCaps |-> Undefined],
   surface |-> [albedo |-> Undefined, temperature |-> Undefined]]

\* id of the mapping object a construction allocates when the argument has
\* no composition mapping
DefaultId == "default"

\* the constructor storing the default mapping whatever the argument holds
CompositionParametersNewAlwaysDefault(arg, heap) ==
  LET validation == validateCompositionParams(arg, heap)
  IN IF ~validation.isValid
       THEN [threw |-> "Error",
             message |-> "Invalid composition parameters: "
                         \o Join(validation.errors, ", "),
             created |-> FALSE, instance |-> NoCompositionInstance, heap |-> heap]
       ELSE [threw |-> "none", message |-> "", created |-> TRUE,
             instance |->
               [atmosphere |-> [composition |-> DefaultId,
                                pressure |-> arg.atmosphere.pressure,
                                thickness |-> arg.atmosphere.thickness],
                water |-> [coverage |-> arg.water.coverage,
                           depth |-> arg.water.depth,
                           iceCaps |-> arg.water.iceCaps],
                surface |-> [albedo |-> arg.surface.albedo,
                             temperature |-> arg.surface.temperature]],
             heap |-> [heap EXCEPT ![DefaultId] = DefaultComposition]]

\* new CompositionParameters(arg): the instance stores the argument's mapping
\* OBJECT (its heap id), not a copy of it; the scalars are copied
CompositionParametersNew(arg, heap) ==
  LET validation == validateCompositionParams(arg, heap)
  IN IF ~validation.isValid
       THEN [threw |-> "Error",
             message |-> "Invalid composition parameters: "
                         \o Join(validation.errors, ", "),
             created |-> FALSE, instance |-> NoCompositionInstance, heap |-> heap]
       ELSE [threw |-> "none", message |-> "", created |-> TRUE,
             instance |->
               [atmosphere |->
                  [composition |-> IF arg.atmosphere.composition # NoComposition
                                     THEN arg.atmosphere.composition
                                     ELSE DefaultId,
                   pressure |-> arg.atmosphere.pressure,
                   thickness |-> arg.atmosphere.thickness],
                water |-> [coverage |-> arg.water.coverage,
                           depth |-> arg.water.depth,
                           iceCaps |-> arg.water.iceCaps],
                surface |-> [albedo |-> arg.surface.albedo,
                             temperature |-> arg.surface.temperature]],
             heap |-> IF arg.atmosphere.composition # NoComposition
                        THEN heap
                        ELSE [heap EXCEPT ![DefaultId] = DefaultComposition]]

\* the preset tables; each one's atmosphere.composition is a mapping object
\* in the heap, named after its table
EARTH_COMPOSITION ==
  CompositionArg(Atmosphere("EARTH_COMPOSITION", Num(1, 0), Num(100, 0)),
                 Water(Num(71, 0), Num(37, -1), Num(3, 0)),
                 Surface(Num(3, -1), Num(288, 0)))

MARS_COMPOSITION ==
  CompositionArg(Atmosphere("MARS_COMPOSITION", Num(6, -3), Num(11, 0)),
                 Water(Num(0, 0), Num(0, 0), Num(100, 0)),
                 Surface(Num(25, -2), Num(210, 0)))

VENUS_COMPOSITION ==
  CompositionArg(Atmosphere("VENUS_COMPOSITION", Num(92, 0), Num(250, 0)),
                 Water(Num(0, 0), Num(0, 0), Num(0, 0)),
                 Surface(Num(75, -2), Num(737, 0)))

EarthGases ==
  <<Entry("N2", Num(7808, -2)), Entry("O2", Num(2095, -2)),
    Entry("Ar", Num(93, -2)), Entry("CO2", Num(4, -2))>>

MarsGases ==
  <<Entry("CO2", Num(9532, -2)), Entry("N2", Num(27, -1)), Entry("Ar", Num(16, -1)),
    Entry("O2", Num(13, -2)), Entry("other", Num(25, -2))>>

VenusGases == <<Entry("CO2", Num(965, -1)), Entry("N2", Num(35, -1))>>

\* the heap when the modules have been loaded: the three preset mappings,
\* and no other mapping object yet
InitialHeap ==
  [id \in {"EARTH_COMPOSITION", "MARS_COMPOSITION", "VENUS_COMPOSITION",
           DefaultId, "input"} |->
     CASE id = "EARTH_COMPOSITION" -> EarthGases
       [] id = "MARS_COMPOSITION" -> MarsGases
       [] id = "VENUS_COMPOSITION" -> VenusGases
       [] OTHER -> <<>>]

(***************************************************************************)
(* Floating-point arithmetic of the derived quantities, carried to four    *)
(* significant digits: every result is rounded to four digits, so one      *)
(* operation is off by at most 5 parts in 10000                            *)
(***************************************************************************)
\* v rounded to four significant digits
Sig(v) ==
  IF v.t # "number" \/ NumDigits(Abs(v.m)) <= 4 THEN v
  ELSE LET a == Abs(v.m)
           drop == NumDigits(a) - 4
           q == (a \div Pow10(drop))
                + (IF 2 * (a % Pow10(drop)) >= Pow10(drop) THEN 1 ELSE 0)
       IN Num(IF v.m < 0 THEN -q ELSE q, v.e + drop)

\* a * b
Times(a, b) == Sig(Mul(Sig(ToNumber(a)), Sig(ToNumber(b))))

\* a / b
Div(a, b) ==
  LET x == Sig(ToNumber(a))
      y == Sig(ToNumber(b))
  IN IF x.t = "NaN" \/ y.t = "NaN" THEN NaN
     ELSE IF x.t # "number" /\ y.t # "number" THEN NaN
     ELSE IF x.t # "number"
       THEN (IF Sign(x) * (IF Sign(y) < 0 THEN -1 ELSE 1) > 0
             THEN PosInfinity ELSE NegInfinity)
     ELSE IF y.t # "number" THEN Zero
     ELSE IF y.m = 0
       THEN (IF x.m = 0 THEN NaN
             ELSE IF x.m > 0 THEN PosInfinity ELSE NegInfinity)
     ELSE IF x.m = 0 THEN Zero
     ELSE LET k == 9 - NumDigits(Abs(x.m))
              q == (Abs(x.m) * Pow10(k)) \div Abs(y.m)
          IN Sig(Num(IF Sign(x) = Sign(y) THEN q ELSE -q, x.e - k - y.e))

\* a + b; a term more than four digits below the other one is lost
Plus(a, b) ==
  LET x == Sig(ToNumber(a))
      y == Sig(ToNumber(b))
  IN IF x.t # "number" \/ y.t # "number" THEN Add(x, y)
     ELSE IF x.m = 0 THEN y
     ELSE IF y.m = 0 THEN x
     ELSE LET xe == x.e - (4 - NumDigits(Abs(x.m)))
              ye == y.e - (4 - NumDigits(Abs(y.m)))
          IN IF xe - ye >= 5 THEN x
             ELSE IF ye - xe >= 5 THEN y
             ELSE Sig(Add(x, y))

Minus(a, b) == Plus(a, Neg(ToNumber(b)))

\* the largest r in lo..hi with r * r <= n
RECURSIVE IntSqrt(_, _, _)
IntSqrt(n, lo, hi) ==
  IF lo >= hi THEN lo
  ELSE LET mid == (lo + hi + 1) \div 2
       IN IF mid * mid <= n THEN IntSqrt(n, mid, hi) ELSE IntSqrt(n, lo, mid - 1)

MathSqrt(v) ==
  LET x == Sig(ToNumber(v))
  IN IF x.t = "NaN" \/ x.t = "-Infinity" THEN NaN
     ELSE IF x.t = "Infinity" THEN PosInfinity
     ELSE IF x.m < 0 THEN NaN
     ELSE IF x.m = 0 THEN Zero
     ELSE LET k0 == 8 - NumDigits(x.m)
              k == IF (x.e - k0) % 2 = 0 THEN k0 ELSE k0 + 1
          IN Sig(Num(IntSqrt(x.m * Pow10(k), 0, 31622), (x.e - k) \div 2))

(***************************************************************************)
(* Derived properties read by the application                              *)
(***************************************************************************)
\* Constants.js: GRAVITATIONAL_CONSTANT = 6.674e-11
GRAVITATIONAL_CONSTANT == Num(6674, -14)

\* Math.PI to four significant digits
MathPI == Num(3142, -3)

\* the radius taken in kilometres (no conversion to metres)
calculateSurfaceGravityKilometres(p) ==
  LET radiusMeters == p.radius
  IN Div(Times(GRAVITATIONAL_CONSTANT, p.mass), Times(radiusMeters, radiusMeters))

calculateSurfaceGravity(p) ==
  LET radiusMeters == Times(p.radius, Num(1000, 0))
  IN Div(Times(GRAVITATIONAL_CONSTANT, p.mass), Times(radiusMeters, radiusMeters))

calculateEscapeVelocity(p) ==
  LET radiusMeters == Times(p.radius, Num(1000, 0))
      velocityMs == MathSqrt(Div(Times(Times(Num(2, 0), GRAVITATIONAL_CONSTANT), p.mass),
                                 radiusMeters))
  IN Div(velocityMs, Num(1000, 0))

calculateVolume(p) ==
  Times(Times(Div(Num(4, 0), Num(3, 0)), MathPI),
        Times(Times(p.radius, p.radius), p.radius))

\* the difference taken relative to the calculated density and not to the
\* stored one, with a tolerance of 10%
isDensityConsistentLoose(p) ==
  LET volumeM3 == Times(calculateVolume(p), Num(1, 9))
      calculatedDensity == Div(p.mass, volumeM3)
      difference == Div(MathAbs(Minus(calculatedDensity, p.density)), calculatedDensity)
  IN JsLe(difference, Num(1, -1))

isDensityConsistent(p) ==
  LET volumeKm3 == calculateVolume(p)
      volumeM3 == Times(volumeKm3, Num(1, 9))
      calculatedDensity == Div(p.mass, volumeM3)
      tolerance == Num(1, -2)
      difference == Div(MathAbs(Minus(calculatedDensity, p.density)), p.density)
  IN JsLe(difference, tolerance)

\* the aggregate without its volume key
getCalculatedPropertiesWithoutVolume(p) ==
  [surfaceGravity |-> calculateSurfaceGravity(p),
   escapeVelocity |-> calculateEscapeVelocity(p),
   densityConsistent |-> isDensityConsistent(p)]

getCalculatedProperties(p) ==
  [surfaceGravity |-> calculateSurfaceGravity(p),
   escapeVelocity |-> calculateEscapeVelocity(p),
   volume |-> calculateVolume(p),
   densityConsistent |-> isDensityConsistent(p)]

\* the loop of getDominantGas taking a later gas on a tie (>= for >)
RECURSIVE DominantFromLastTie(_, _, _)
DominantFromLastTie(mapping, maxPercentage, dominantGas) ==
  IF mapping = <<>> THEN dominantGas
  ELSE IF JsGe(mapping[1].pct, maxPercentage)
    THEN DominantFromLastTie(Tail(mapping), mapping[1].pct, mapping[1].gas)
  ELSE DominantFromLastTie(Tail(mapping), maxPercentage, dominantGas)

RECURSIVE DominantFrom(_, _, _)
DominantFrom(mapping, maxPercentage, dominantGas) ==
  IF mapping = <<>> THEN dominantGas
  ELSE IF JsGt(mapping[1].pct, maxPercentage)
    THEN DominantFrom(Tail(mapping), mapping[1].pct, mapping[1].gas)
  ELSE DominantFrom(Tail(mapping), maxPercentage, dominantGas)

getDominantGas(c, heap) ==
  DominantFrom(heap[c.atmosphere.composition], Zero, "unknown")

\* the greenhouse term growing with the pressure itself (no logarithm)
calculateGreenhouseEffectLinear(c, heap) ==
  LET comp == heap[c.atmosphere.composition]
      co2Factor == ShiftDown(ToNumber(OrElse(Get(comp, "CO2"), Zero)), 2)
      ch4Factor == ShiftDown(ToNumber(OrElse(Get(comp, "CH4"), Zero)), 2)
      pressureFactor == MathMax(Num(1, -2), c.atmosphere.pressure)
  IN RoundTo(Mul(Add(Mul(co2Factor, Num(30, 0)), Mul(ch4Factor, Num(20, 0))),
                 pressureFactor), 4)

\* the logarithm taken of the pressure itself (no floor at 0.01)
calculateGreenhouseEffectNoFloor(c, heap) ==
  LET comp == heap[c.atmosphere.composition]
      co2Factor == ShiftDown(ToNumber(OrElse(Get(comp, "CO2"), Zero)), 2)
      ch4Factor == ShiftDown(ToNumber(OrElse(Get(comp, "CH4"), Zero)), 2)
      pressureFactor == MathLog(c.atmosphere.pressure)
  IN RoundTo(Mul(Add(Mul(co2Factor, Num(30, 0)), Mul(ch4Factor, Num(20, 0))),
                 pressureFactor), 4)

\* the product is kept to four decimals, the precision of MathLog
calculateGreenhouseEffect(c, heap) ==
  LET comp == heap[c.atmosphere.composition]
      co2Factor == ShiftDown(ToNumber(OrElse(Get(comp, "CO2"), Zero)), 2)
      ch4Factor == ShiftDown(ToNumber(OrElse(Get(comp, "CH4"), Zero)), 2)
      pressureFactor == MathLog(MathMax(Num(1, -2), c.atmosphere.pressure))
  IN RoundTo(Mul(Add(Mul(co2Factor, Num(30, 0)), Mul(ch4Factor, Num(20, 0))),
                 pressureFactor), 4)

getEffectiveTemperature(c, heap) ==
  Add(c.surface.temperature, calculateGreenhouseEffect(c, heap))

\* the liquid-water test admitting a pressure of exactly 0.006 (>= for >)
canSupportLiquidWaterAtLimit(c, heap) ==
  LET temp == getEffectiveTemperature(c, heap)
      pressure == c.atmosphere.pressure
      minTemp == Sub(Num(273, 0), Mul(Sub(Num(1, 0), pressure), Num(10, 0)))
      maxTemp == Add(Num(373, 0), Mul(Sub(pressure, Num(1, 0)), Num(20, 0)))
  IN JsGe(temp, minTemp) /\ JsLe(temp, maxTemp) /\ JsGe(pressure, Num(6, -3))

canSupportLiquidWater(c, heap) ==
  LET temp == getEffectiveTemperature(c, heap)
      pressure == c.atmosphere.pressure
      minTemp == Sub(Num(273, 0), Mul(Sub(Num(1, 0), pressure), Num(10, 0)))
      maxTemp == Add(Num(373, 0), Mul(Sub(pressure, Num(1, 0)), Num(20, 0)))
  IN JsGe(temp, minTemp) /\ JsLe(temp, maxTemp) /\ JsGt(pressure, Num(6, -3))

\* the decision table with the depth rules tried before the frozen rule
getOceanColorDepthFirst(c, heap) ==
  LET depth == c.water.depth
      temp == getEffectiveTemperature(c, heap)
  IN IF JsGt(depth, Num(5, 0)) THEN 662074
     ELSE IF JsGt(depth, Num(1, 0)) THEN 1723770
     ELSE IF JsLt(temp, Num(273, 0)) \/ JsGt(c.water.iceCaps, Num(80, 0)) THEN 14544639
     ELSE 4885946

\* 0xddeeff = 14544639, 0x0a1a3a = 662074, 0x1a4d7a = 1723770,
\* 0x4a8dba = 4885946
getOceanColor(c, heap) ==
  LET depth == c.water.depth
      temp == getEffectiveTemperature(c, heap)
  IN IF JsLt(temp, Num(273, 0)) \/ JsGt(c.water.iceCaps, Num(80, 0)) THEN 14544639
     ELSE IF JsGt(depth, Num(5, 0)) THEN 662074
     ELSE IF JsGt(depth, Num(1, 0)) THEN 1723770
     ELSE 4885946

\* the decision table with the methane rule tried before the CO2 rule
getAtmosphereColorMethaneFirst(c, heap) ==
  LET comp == heap[c.atmosphere.composition]
  IN IF JsGt(Get(comp, "N2"), Num(60, 0)) /\ JsGt(Get(comp, "O2"), Num(15, 0))
       THEN <<Num(3, -1), Num(6, -1), Num(1, 0)>>
     ELSE IF ~Falsy(Get(comp, "CH4")) /\ JsGt(Get(comp, "CH4"), Num(30, 0))
       THEN <<Num(1, 0), Num(7, -1), Num(4, -1)>>
     ELSE IF JsGt(Get(comp, "CO2"), Num(50, 0))
       THEN <<Num(1, 0), Num(5, -1), Num(3, -1)>>
     ELSE IF JsGt(Get(comp, "N2"), Num(80, 0))
             /\ (Falsy(Get(comp, "O2")) \/ JsLt(Get(comp, "O2"), Num(5, 0)))
       THEN <<Num(1, 0), Num(8, -1), Num(5, -1)>>
     ELSE <<Num(5, -1), Num(7, -1), Num(9, -1)>>

getAtmosphereColor(c, heap) ==
  LET comp == heap[c.atmosphere.composition]
  IN IF JsGt(Get(comp, "N2"), Num(60, 0)) /\ JsGt(Get(comp, "O2"), Num(15, 0))
       THEN <<Num(3, -1), Num(6, -1), Num(1, 0)>>
     ELSE IF JsGt(Get(comp, "CO2"), Num(50, 0))
       THEN <<Num(1, 0), Num(5, -1), Num(3, -1)>>
     ELSE IF ~Falsy(Get(comp, "CH4")) /\ JsGt(Get(comp, "CH4"), Num(30, 0))
       THEN <<Num(1, 0), Num(7, -1), Num(4, -1)>>
     ELSE IF JsGt(Get(comp, "N2"), Num(80, 0))
             /\ (Falsy(Get(comp, "O2")) \/ JsLt(Get(comp, "O2"), Num(5, 0)))
       THEN <<Num(1, 0), Num(8, -1), Num(5, -1)>>
     ELSE <<Num(5, -1), Num(7, -1), Num(9, -1)>>

(***************************************************************************)
(* PlanetRenderer: the three meshes it holds                               *)
(***************************************************************************)
\* a mesh: whether it is in the scene, how often its geometry and its
\* material have been disposed, the radius of its sphere and its glow colour
NullMesh ==
  [null |-> TRUE, inScene |-> FALSE, geometryDisposals |-> 0,
   materialDisposals |-> 0, radius |-> Undefined, color |-> <<>>]

NewMesh(radius, color) ==
  [null |-> FALSE, inScene |-> TRUE, geometryDisposals |-> 0,
   materialDisposals |-> 0, radius |-> radius, color |-> color]

\* scene.remove(mesh); mesh.geometry.dispose(); mesh.material.dispose()
RemoveAndDispose(mesh) ==
  IF mesh.null THEN mesh
  ELSE [mesh EXCEPT !.inScene = FALSE,
                    !.geometryDisposals = @ + 1,
                    !.materialDisposals = @ + 1]

\* v * c / 100 for a finite v, exact in decimal
Scale(v, c) == IF v.t = "number" THEN Num(v.m * c, v.e - 2) ELSE v

createPlanetMesh(r, p, c, heap) ==
  LET displayRadius == ShiftDown(ToNumber(p.radius), 3)
      oldCloud == RemoveAndDispose(r.cloudMesh)
      hasAtmosphere == JsGt(c.atmosphere.pressure, Num(1, -1))
  IN [r EXCEPT
        !.planetMesh = NewMesh(displayRadius, <<>>),
        !.atmosphereMesh = NewMesh(Scale(displayRadius, 115),
                                   getAtmosphereColor(c, heap)),
        !.cloudMesh = IF hasAtmosphere THEN NewMesh(Scale(displayRadius, 101), <<>>)
                      ELSE oldCloud]

\* mesh.geometry.dispose(); mesh.geometry = new SphereGeometry(radius)
ReplaceGeometry(mesh, radius) ==
  IF mesh.null THEN mesh
  ELSE [mesh EXCEPT !.geometryDisposals = 0, !.radius = radius]

updatePlanetSize(r, radius) ==
  IF r.planetMesh.null THEN r
  ELSE LET displayRadius == ShiftDown(ToNumber(radius), 3)
       IN [r EXCEPT
             !.planetMesh = ReplaceGeometry(@, displayRadius),
             !.atmosphereMesh = ReplaceGeometry(@, Scale(displayRadius, 115)),
             !.cloudMesh = ReplaceGeometry(@, Scale(displayRadius, 101))]

NewRenderer ==
  [planetMesh |-> NullMesh, atmosphereMesh |-> NullMesh, cloudMesh |-> NullMesh]

(***************************************************************************)
(* State                                                                   *)
(***************************************************************************)
(***************************************************************************)
(* PlanetRenderer: the animation loop, the resize listener and dispose.    *)
(* s.w is the browser window (the pending animation-frame requests, the    *)
(* function objects registered for 'resize', and the next request id and   *)
(* function object), s.l the renderer's own fields                         *)
(***************************************************************************)
NoWindow == [frames |-> {}, nextFrame |-> 1, listeners |-> {}, nextFunction |-> 1]

NoLifecycle ==
  [constructed |-> FALSE, animationId |-> 0, size |-> <<0, 0>>,
   glDisposed |-> FALSE, controlsDisposed |-> FALSE, disposed |-> FALSE]

\* the arrow function of the constructor is a new function object, and it is
\* the one registered; animationId null is written 0 (request ids start at 1)
PlanetRendererNew(w, size) ==
  [w |-> [w EXCEPT !.listeners = @ \cup {w.nextFunction}, !.nextFunction = @ + 1],
   l |-> [constructed |-> TRUE, animationId |-> 0, size |-> size,
          glDisposed |-> FALSE, controlsDisposed |-> FALSE, disposed |-> FALSE]]

\* this.animationId = requestAnimationFrame(() => this.animate()); the
\* rotation of the meshes and the render call change nothing kept here
animate(s) ==
  [w |-> [s.w EXCEPT !.frames = @ \cup {s.w.nextFrame}, !.nextFrame = @ + 1],
   l |-> [s.l EXCEPT !.animationId = s.w.nextFrame]]

\* start without its test of animationId
startUnguarded(s) == animate(s)

start(s) == IF s.l.animationId = 0 THEN animate(s) ELSE s

stop(s) ==
  IF s.l.animationId # 0
    THEN [w |-> [s.w EXCEPT !.frames = @ \ {s.l.animationId}],
          l |-> [s.l EXCEPT !.animationId = 0]]
    ELSE s

onWindowResize(s, size) == [s EXCEPT !.l.size = size]

\* mesh.geometry.dispose(); mesh.material.dispose()
DisposeMesh(mesh) ==
  IF mesh.null THEN mesh
  ELSE [mesh EXCEPT !.geometryDisposals = @ + 1, !.materialDisposals = @ + 1]

\* the argument of removeEventListener is another new function object, which
\* was never registered
dispose(s) ==
  LET t == stop(s)
  IN [w |-> [t.w EXCEPT !.listeners = @ \ {t.w.nextFunction}, !.nextFunction = @ + 1],
      l |-> [t.l EXCEPT !.glDisposed = TRUE, !.controlsDisposed = TRUE,
                        !.disposed = TRUE]]

(***************************************************************************)
(* PlanetTextureLoader (TextureLoader.js): cache maps a URL to the texture *)
(* cached for it, 0 if none; a texture is named by the number of the load  *)
(* that produced it. pending are the loads of the THREE loader in flight,  *)
(* loads counts the calls of loader.load per URL                           *)
(***************************************************************************)
Urls == {"earth.jpg", "clouds.png"}

NewTextureLoader ==
  [cache |-> [u \in Urls |-> 0], pending |-> {}, loads |-> [u \in Urls |-> 0]]

\* the part of loadTexture that runs before it returns its promise
loadTexture(t, url) ==
  IF t.cache[url] # 0 THEN t
  ELSE [t EXCEPT !.loads[url] = @ + 1,
                 !.pending = @ \cup {[url |-> url, n |-> t.loads[url] + 1]}]

\* the onLoad callback: this.cache.set(url, texture); resolve(texture)
onLoad(t, load) ==
  [t EXCEPT !.cache[load.url] = load.n, !.pending = @ \ {load}]

\* the onError callback: reject(error)
onError(t, load) == [t EXCEPT !.pending = @ \ {load}]

VARIABLES
  params,        \* the argument handed to validatePhysicalParams / the constructor
  validation,    \* outcome of validatePhysicalParams(params)
  construction,  \* outcome of new PhysicalParameters(params)
  compArg,       \* the argument handed to validateCompositionParams / the constructor
  compValidation,    \* outcome of validateCompositionParams(compArg)
  compConstruction,  \* outcome of new CompositionParameters(compArg)
  heap,          \* the composition mapping objects, by id
  parameters,    \* PlanetBuilderApp.parameters
  composition,   \* PlanetBuilderApp.composition
  guiControls,   \* PlanetBuilderApp.guiControls
  renderer,      \* PlanetBuilderApp.renderer
  uncaught,      \* the error the last GUI event let escape, "none" if none
  result,        \* the last method called on an instance, and what it returned
  edits,         \* number of GUI events handled so far
  window,        \* the browser: pending animation frames, 'resize' listeners
  lifecycle,     \* PlanetRenderer.animationId, the size last applied, what is disposed
  textureLoader  \* PlanetTextureLoader.cache, and the loads its THREE loader has in flight

vars ==
  <<params, validation, construction, compArg, compValidation, compConstruction,
    heap, parameters, composition, guiControls, renderer, uncaught, result, edits,
    window, lifecycle, textureLoader>>

physVars == <<params, validation, construction>>

compVars == <<compArg, compValidation, compConstruction, result>>

envVars == <<window, lifecycle, textureLoader>>

appVars == <<parameters, composition, guiControls, renderer, uncaught, edits, envVars>>

NotValidated == [threw |-> "not called", isValid |-> FALSE, errors |-> <<>>]

NotConstructed ==
  [threw |-> "not called", message |-> "", created |-> FALSE, instance |-> NoInstance]

CompositionNotConstructed ==
  [threw |-> "not called", message |-> "", created |-> FALSE,
   instance |-> NoCompositionInstance]

NoResult == [method |-> "none", value |-> <<>>]

NoGuiControls ==
  [mass |-> Undefined, radius |-> Undefined, density |-> Undefined,
   rotationRate |-> Undefined, axialTilt |-> Undefined,
   surfaceGravity |-> Zero, escapeVelocity |-> Zero,
   waterCoverage |-> Undefined, temperature |-> Undefined, iceCaps |-> Undefined,
   atmospherePressure |-> Undefined, CO2 |-> Undefined, effectiveTemp |-> Zero,
   preset |-> "none"]

\* the parts of the state a specification does not use
PhysicalIdle ==
  /\ params = NonObjectArg("undefined")
  /\ validation = NotValidated
  /\ construction = NotConstructed

CompositionIdle ==
  /\ compArg = CompositionArg(NoAtmosphere, NoWater, NoSurface)
  /\ compValidation = NotValidated
  /\ compConstruction = CompositionNotConstructed
  /\ result = NoResult

AppIdle ==
  /\ parameters = NoInstance
  /\ composition = NoCompositionInstance
  /\ guiControls = NoGuiControls
  /\ renderer = NewRenderer
  /\ uncaught = "none"
  /\ edits = 0
  /\ window = NoWindow
  /\ lifecycle = NoLifecycle
  /\ textureLoader = NewTextureLoader

(***************************************************************************)
(* Inputs of the physical validator: every kind of value in a field; at    *)
(* most MaxUnusualFields fields at once hold a value other than the EARTH  *)
(* value or an absent key                                                  *)
(***************************************************************************)
MaxUnusualFields == 2

NonNumbers == {Undefined, Null, Str("abc"), Str("")}

NonFinite == {NaN, PosInfinity, NegInfinity}

FieldValues ==
  [mass |-> NonNumbers \cup NonFinite \cup
            {Num(-1000, 0), Zero, Num(1, 19), Num(1, 20), EARTH.mass, Num(1, 30),
             Num(1, 40)},
   radius |-> NonNumbers \cup NonFinite \cup
              {Num(-1, 0), Zero, Num(99, 0), Num(100, 0), EARTH.radius,
               Num(100000, 0), Num(100001, 0)},
   density |-> NonNumbers \cup NonFinite \cup
               {Num(-1, 0), Zero, Num(4999, -1), Num(500, 0), EARTH.density,
                Num(15000, 0), Num(15001, 0)},
   rotationRate |-> NonNumbers \cup NonFinite \cup
                    {Num(-24, 0), Zero, Num(9, -2), Num(1, -1), EARTH.rotationRate,
                     Num(1000, 0), Num(10001, -1)},
   axialTilt |-> NonNumbers \cup NonFinite \cup
                 {Num(-1, -1), Zero, EARTH.axialTilt, Num(180, 0), Num(200, 0)}]

UsualValues(f) == {EARTH[f], Undefined}

FieldNames == {"mass", "radius", "density", "rotationRate", "axialTilt"}

\* the values field f ranges over when the fields in U are the unusual ones
ValuesWhen(f, U) == IF f \in U THEN FieldValues[f] \ UsualValues(f) ELSE UsualValues(f)

\* the four preset tables handed over as they are, with their extra keys
PresetInputs == {[kind |-> "object"] @@ P : P \in {EARTH, MARS, JUPITER, MOON}}

PhysicalInputs ==
  UNION {{ObjectArg(m, r, d, w, a) :
            m \in ValuesWhen("mass", U), r \in ValuesWhen("radius", U),
            d \in ValuesWhen("density", U), w \in ValuesWhen("rotationRate", U),
            a \in ValuesWhen("axialTilt", U)} :
         U \in {V \in SUBSET FieldNames : Cardinality(V) <= MaxUnusualFields}}
  \cup {NonObjectArg("undefined"), NonObjectArg("null")}
  \cup PresetInputs

InitPhysical ==
  /\ params \in PhysicalInputs
  /\ validation = NotValidated
  /\ construction = NotConstructed
  /\ heap = InitialHeap
  /\ CompositionIdle
  /\ AppIdle

CallValidatePhysicalParams ==
  /\ validation = NotValidated
  /\ validation' = validatePhysicalParams(params)
  /\ UNCHANGED <<params, construction, compVars, heap, appVars>>

CallPhysicalParametersNew ==
  /\ construction = NotConstructed
  /\ construction' = PhysicalParametersNew(params)
  /\ UNCHANGED <<params, validation, compVars, heap, appVars>>

NextPhysical == CallValidatePhysicalParams \/ CallPhysicalParametersNew

SpecPhysical == InitPhysical /\ [][NextPhysical]_vars

(***************************************************************************)
(* Inputs of the composition validator: the Earth table with at most       *)
(* MaxUnusualFields of its fields replaced by another kind of value, or    *)
(* with sub-objects left out                                               *)
(***************************************************************************)
Unusual == {Undefined, Null, NaN, Str("abc"), PosInfinity, Num(-1, 0)}

CompositionFieldValues ==
  [pressure |-> Unusual \cup {Zero, Num(6, -3), Num(100, 0), Num(101, 0)},
   thickness |-> Unusual \cup {Zero, Num(1000, 0), Num(1001, 0)},
   coverage |-> Unusual \cup {Zero, Num(100, 0), Num(101, 0)},
   depth |-> Unusual \cup {Zero, Num(100, 0), Num(101, 0)},
   iceCaps |-> Unusual \cup {Zero, Num(100, 0), Num(101, 0)},
   albedo |-> Unusual \cup {Zero, Num(1, 0), Num(11, -1)},
   temperature |-> Unusual \cup {Zero, Num(1000, 0), Num(1001, 0)}]

\* the mapping objects tried as atmosphere.composition; <<>> is {} and
\* NoMapping stands for a key that is left out
NoMapping == <<Entry("", Undefined)>>

MappingValues ==
  {NoMapping,
   <<>>,
   <<Entry("N2", Num(78, 0)), Entry("O2", Num(21, 0))>>,
   <<Entry("N2", Num(80, 0)), Entry("O2", Num(21, 0))>>,
   <<Entry("N2", Num(70, 0)), Entry("O2", Num(20, 0))>>,
   <<Entry("N2", Num(50, 0)), Entry("O2", Num(50, 0))>>,
   <<Entry("N2", Num(110, 0)), Entry("O2", Num(-10, 0))>>,
   <<Entry("N2", NaN), Entry("O2", Num(21, 0))>>,
   <<Entry("N2", Num(100, 0)), Entry("O2", Undefined)>>,
   <<Entry("N2", Num(100, 0)), Entry("O2", Null)>>,
   <<Entry("CO2", Num(60, 0)), Entry("CH4", Num(40, 0))>>,
   MarsGases, VenusGases}

CompositionFieldNames ==
  {"pressure", "thickness", "coverage", "depth", "iceCaps", "albedo", "temperature"}

EarthValue(f) ==
  CASE f = "pressure" -> EARTH_COMPOSITION.atmosphere.pressure
    [] f = "thickness" -> EARTH_COMPOSITION.atmosphere.thickness
    [] f = "coverage" -> EARTH_COMPOSITION.water.coverage
    [] f = "depth" -> EARTH_COMPOSITION.water.depth
    [] f = "iceCaps" -> EARTH_COMPOSITION.water.iceCaps
    [] f = "albedo" -> EARTH_COMPOSITION.surface.albedo
    [] f = "temperature" -> EARTH_COMPOSITION.surface.temperature

CompositionValuesWhen(f, U) ==
  IF f \in U THEN CompositionFieldValues[f] ELSE {EarthValue(f)}

MappingsWhen(U) == IF "composition" \in U THEN MappingValues ELSE {EarthGases}

\* an input: the argument and the mapping object it refers to
CompositionInput(mapping, pressure, thickness, cover, depth, ice, albedo, temp) ==
  [arg |-> CompositionArg(
             Atmosphere(IF mapping = NoMapping THEN NoComposition ELSE "input",
                        pressure, thickness),
             Water(cover, depth, ice),
             Surface(albedo, temp)),
   mapping |-> IF mapping = NoMapping THEN <<>> ELSE mapping]

FullCompositionInputs ==
  UNION {{CompositionInput(g, p, t, c, d, i, a, k) :
            g \in MappingsWhen(U),
            p \in CompositionValuesWhen("pressure", U),
            t \in CompositionValuesWhen("thickness", U),
            c \in CompositionValuesWhen("coverage", U),
            d \in CompositionValuesWhen("depth", U),
            i \in CompositionValuesWhen("iceCaps", U),
            a \in CompositionValuesWhen("albedo", U),
            k \in CompositionValuesWhen("temperature", U)} :
         U \in {V \in SUBSET (CompositionFieldNames \cup {"composition"}) :
                  Cardinality(V) <= MaxUnusualFields}}

\* the Earth input with any of its three sub-objects left out
PartialCompositionInputs ==
  {[arg |-> CompositionArg(
              IF "atmosphere" \in S THEN NoAtmosphere
              ELSE [EARTH_COMPOSITION.atmosphere EXCEPT !.composition = "input"],
              IF "water" \in S THEN NoWater ELSE EARTH_COMPOSITION.water,
              IF "surface" \in S THEN NoSurface ELSE EARTH_COMPOSITION.surface),
    mapping |-> IF "atmosphere" \in S THEN <<>> ELSE EarthGases] :
   S \in SUBSET {"atmosphere", "water", "surface"}}

CompositionInputs == FullCompositionInputs \cup PartialCompositionInputs

InitComposition ==
  /\ \E in \in CompositionInputs :
       /\ compArg = in.arg
       /\ heap = [InitialHeap EXCEPT !["input"] = in.mapping]
  /\ compValidation = NotValidated
  /\ compConstruction = CompositionNotConstructed
  /\ result = NoResult
  /\ PhysicalIdle
  /\ AppIdle

CallValidateCompositionParams ==
  /\ compValidation = NotValidated
  /\ compValidation' = validateCompositionParams(compArg, heap)
  /\ UNCHANGED <<compArg, compConstruction, heap, result, physVars, appVars>>

CallCompositionParametersNew ==
  /\ compConstruction = CompositionNotConstructed
  /\ LET made == CompositionParametersNew(compArg, heap)
     IN /\ compConstruction' =
             [threw |-> made.threw, message |-> made.message,
              created |-> made.created, instance |-> made.instance]
        /\ heap' = made.heap
  /\ UNCHANGED <<compArg, compValidation, result, physVars, appVars>>

NextComposition == CallValidateCompositionParams \/ CallCompositionParametersNew

SpecComposition == InitComposition /\ [][NextComposition]_vars

(***************************************************************************)
(* toString of the two parameter classes                                   *)
(***************************************************************************)
\* Number.prototype.toExponential(3)
ToExponential3(v) ==
  IF v.t # "number" THEN NumberToString(v)
  ELSE IF v.m = 0 THEN "0.000e+0"
  ELSE LET x == Sig(v)
           a == Abs(x.m)
           digits == DigitString(a) \o Zeros(4 - NumDigits(a))
           n == NumDigits(a) + x.e - 1
       IN (IF x.m < 0 THEN "-" ELSE "")
          \o SubSeq(digits, 1, 1) \o "." \o SubSeq(digits, 2, 4)
          \o "e" \o (IF n < 0 THEN "-" \o DigitString(-n) ELSE "+" \o DigitString(n))

\* the cubic metre and the degree sign are written in ASCII
PhysicalToString(p) ==
  LET calculated == getCalculatedProperties(p)
  IN Join(<<"Planet Physical Parameters:",
            "  Mass: " \o ToExponential3(p.mass) \o " kg",
            "  Radius: " \o ToFixed(p.radius, 1) \o " km",
            "  Density: " \o ToFixed(p.density, 1) \o " kg/m^3",
            "  Rotation Rate: " \o ToFixed(p.rotationRate, 1) \o " hours",
            "  Axial Tilt: " \o ToFixed(p.axialTilt, 1) \o " deg",
            "",
            "Calculated Properties:",
            "  Surface Gravity: " \o ToFixed(calculated.surfaceGravity, 2) \o " m/s^2",
            "  Escape Velocity: " \o ToFixed(calculated.escapeVelocity, 2) \o " km/s",
            "  Volume: " \o ToExponential3(calculated.volume) \o " km^3",
            "  Density Consistent: "
              \o (IF calculated.densityConsistent THEN "Yes" ELSE "No")>>, "\n")

\* JSON.stringify of a mapping: a key holding undefined is left out; NaN,
\* an infinity and null are written null
RECURSIVE JsonMembers(_)
JsonMembers(mapping) ==
  IF mapping = <<>> THEN <<>>
  ELSE LET v == Head(mapping).pct
           rest == JsonMembers(Tail(mapping))
       IN IF v.t = "undefined" THEN rest
          ELSE <<"\"" \o Head(mapping).gas \o "\":"
                 \o (IF v.t = "number" THEN NumberToString(v) ELSE "null")>> \o rest

JsonStringify(mapping) == "{" \o Join(JsonMembers(mapping), ",") \o "}"

\* calling toFixed on a value that is not a number raises a TypeError
CompositionToString(c, h) ==
  LET dominant == getDominantGas(c, h)
      greenhouse == calculateGreenhouseEffect(c, h)
      effectiveTemp == getEffectiveTemperature(c, h)
      canHaveWater == canSupportLiquidWater(c, h)
      formatted == <<c.atmosphere.pressure, c.atmosphere.thickness, c.water.coverage,
                     c.water.depth, c.water.iceCaps, c.surface.albedo,
                     c.surface.temperature>>
  IN IF \E i \in 1..Len(formatted) : ~TypeofNumber(formatted[i])
       THEN [threw |-> "TypeError", text |-> ""]
     ELSE [threw |-> "none",
           text |->
             Join(<<"Composition Parameters:",
                    "",
                    "Atmosphere:",
                    "  Composition: " \o JsonStringify(h[c.atmosphere.composition]),
                    "  Dominant Gas: " \o dominant,
                    "  Pressure: " \o ToFixed(c.atmosphere.pressure, 2) \o " atm",
                    "  Thickness: " \o ToFixed(c.atmosphere.thickness, 1) \o " km",
                    "  Greenhouse Effect: +" \o ToFixed(greenhouse, 1) \o " K",
                    "",
                    "Water:",
                    "  Coverage: " \o ToFixed(c.water.coverage, 1) \o "%",
                    "  Depth: " \o ToFixed(c.water.depth, 2) \o " km",
                    "  Ice Caps: " \o ToFixed(c.water.iceCaps, 1) \o "%",
                    "",
                    "Surface:",
                    "  Albedo: " \o ToFixed(c.surface.albedo, 2),
                    "  Base Temperature: " \o ToFixed(c.surface.temperature, 1) \o " K",
                    "  Effective Temperature: " \o ToFixed(effectiveTemp, 1) \o " K",
                    "  Can Support Liquid Water: "
                      \o (IF canHaveWater THEN "Yes" ELSE "No")>>, "\n")]

(***************************************************************************)
(* The read methods of a CompositionParameters instance, called on         *)
(* instances built from the preset tables and from arguments that vary the *)
(* mapping, the pressure and the surface temperature                       *)
(***************************************************************************)
MethodInputs ==
  {CompositionInput(g, p, EARTH_COMPOSITION.atmosphere.thickness,
                    EARTH_COMPOSITION.water.coverage, EARTH_COMPOSITION.water.depth,
                    EARTH_COMPOSITION.water.iceCaps,
                    EARTH_COMPOSITION.surface.albedo, k) :
     g \in {NoMapping, EarthGases, MarsGases, VenusGases,
            <<Entry("N2", Num(50, 0)), Entry("O2", Num(50, 0))>>,
            <<Entry("O2", Num(50, 0)), Entry("N2", Num(50, 0))>>,
            <<Entry("CO2", Num(60, 0)), Entry("CH4", Num(40, 0))>>,
            <<Entry("N2", Num(60, 0)), Entry("CH4", Num(40, 0))>>,
            <<Entry("N2", Num(90, 0)), Entry("O2", Num(4, 0)), Entry("Ar", Num(6, 0))>>,
            <<Entry("N2", Num(85, 0)), Entry("O2", Num(15, 0))>>,
            <<Entry("N2", Num(100, 0)), Entry("O2", Null)>>,
            <<Entry("N2", NaN), Entry("O2", Num(21, 0))>>},
     p \in {Zero, Num(6, -3), Num(1, -2), Num(5, -1), Num(1, 0), Num(2, 0),
            Num(92, 0), Num(100, 0), Null, NaN},
     k \in {Zero, Num(210, 0), Num(2679, -1), Num(268, 0), Num(2729, -1),
            Num(273, 0), Num(288, 0), Num(373, 0), Num(3731, -1), Num(737, 0),
            Num(1000, 0), Null, NaN}}
  \cup {[arg |-> P, mapping |-> <<>>] :
          P \in {EARTH_COMPOSITION, MARS_COMPOSITION, VENUS_COMPOSITION}}
  \cup {CompositionInput(g, p, EARTH_COMPOSITION.atmosphere.thickness,
                         EARTH_COMPOSITION.water.coverage, d, i,
                         EARTH_COMPOSITION.surface.albedo, k) :
          g \in {EarthGases, MarsGases},
          p \in {Num(5, -1), Num(1, 0)},
          d \in {Zero, Num(1, 0), Num(11, -1), Num(5, 0), Num(51, -1),
                 Num(100, 0), Null, NaN},
          i \in {Zero, Num(80, 0), Num(801, -1), Num(100, 0), NaN},
          k \in {Num(2729, -1), Num(273, 0), Num(288, 0), NaN}}

\* arguments of the PhysicalParameters constructor: the preset tables, and
\* masses, radii and densities at the ends of their ranges, outside them, and
\* around the density that the Earth's mass and radius give
PhysicalMethodInputs ==
  PresetInputs
  \cup {ObjectArg(m, r, d, EARTH.rotationRate, EARTH.axialTilt) :
          m \in {Num(1, 19), Num(1, 20), EARTH.mass, Num(1, 30)},
          r \in {Num(100, 0), EARTH.radius, Num(1, 5), Num(2, 5)},
          d \in {Num(400, 0), Num(500, 0), Num(5450, 0), Num(5460, 0), EARTH.density,
                 Num(5560, 0), Num(5580, 0), Num(15000, 0)}}

\* a CompositionParameters instance has been constructed; no method has been
\* called on it yet
InitCompositionMethods ==
  /\ \E in \in MethodInputs :
       \E made \in {CompositionParametersNew(
                       in.arg, [InitialHeap EXCEPT !["input"] = in.mapping])} :
         /\ made.created
         /\ compArg = in.arg
         /\ compConstruction =
              [threw |-> made.threw, message |-> made.message,
               created |-> made.created, instance |-> made.instance]
         /\ heap = made.heap
  /\ compValidation = NotValidated
  /\ result = NoResult
  /\ PhysicalIdle
  /\ AppIdle

\* new PhysicalParameters(params) has run; no method has been called yet
InitPhysicalMethods ==
  /\ \E in \in PhysicalMethodInputs :
       /\ params = in
       /\ construction = PhysicalParametersNew(in)
  /\ validation = NotValidated
  /\ heap = InitialHeap
  /\ CompositionIdle
  /\ AppIdle

InitMethods == InitCompositionMethods \/ InitPhysicalMethods

CallCalculateSurfaceGravity ==
  /\ construction.created
  /\ result' = [method |-> "calculateSurfaceGravity",
                value |-> calculateSurfaceGravity(construction.instance)]
  /\ UNCHANGED <<compArg, compValidation, compConstruction, heap, physVars, appVars>>

CallCalculateEscapeVelocity ==
  /\ construction.created
  /\ result' = [method |-> "calculateEscapeVelocity",
                value |-> calculateEscapeVelocity(construction.instance)]
  /\ UNCHANGED <<compArg, compValidation, compConstruction, heap, physVars, appVars>>

CallCalculateVolume ==
  /\ construction.created
  /\ result' = [method |-> "calculateVolume",
                value |-> calculateVolume(construction.instance)]
  /\ UNCHANGED <<compArg, compValidation, compConstruction, heap, physVars, appVars>>

CallIsDensityConsistent ==
  /\ construction.created
  /\ result' = [method |-> "isDensityConsistent",
                value |-> isDensityConsistent(construction.instance)]
  /\ UNCHANGED <<compArg, compValidation, compConstruction, heap, physVars, appVars>>

CallGetCalculatedProperties ==
  /\ construction.created
  /\ result' = [method |-> "getCalculatedProperties",
                value |-> getCalculatedProperties(construction.instance)]
  /\ UNCHANGED <<compArg, compValidation, compConstruction, heap, physVars, appVars>>

CallGetDominantGas ==
  /\ compConstruction.created
  /\ result' = [method |-> "getDominantGas",
                value |-> getDominantGas(compConstruction.instance, heap)]
  /\ UNCHANGED <<compArg, compValidation, compConstruction, heap, physVars, appVars>>

CallGetAtmosphereColor ==
  /\ compConstruction.created
  /\ result' = [method |-> "getAtmosphereColor",
                value |-> getAtmosphereColor(compConstruction.instance, heap)]
  /\ UNCHANGED <<compArg, compValidation, compConstruction, heap, physVars, appVars>>

CallCalculateGreenhouseEffect ==
  /\ compConstruction.created
  /\ result' = [method |-> "calculateGreenhouseEffect",
                value |-> calculateGreenhouseEffect(compConstruction.instance, heap)]
  /\ UNCHANGED <<compArg, compValidation, compConstruction, heap, physVars, appVars>>

CallGetEffectiveTemperature ==
  /\ compConstruction.created
  /\ result' = [method |-> "getEffectiveTemperature",
                value |-> getEffectiveTemperature(compConstruction.instance, heap)]
  /\ UNCHANGED <<compArg, compValidation, compConstruction, heap, physVars, appVars>>

CallCanSupportLiquidWater ==
  /\ compConstruction.created
  /\ result' = [method |-> "canSupportLiquidWater",
                value |-> canSupportLiquidWater(compConstruction.instance, heap)]
  /\ UNCHANGED <<compArg, compValidation, compConstruction, heap, physVars, appVars>>

CallGetOceanColor ==
  /\ compConstruction.created
  /\ result' = [method |-> "getOceanColor",
                value |-> getOceanColor(compConstruction.instance, heap)]
  /\ UNCHANGED <<compArg, compValidation, compConstruction, heap, physVars, appVars>>

\* the instance holds the caller's mapping object itself, so the caller can
\* still write to it: here it deletes every key
CallerEmptiesMapping ==
  /\ compConstruction.created
  /\ compConstruction.instance.atmosphere.composition = "input"
  /\ heap["input"] # <<>>
  /\ heap' = [heap EXCEPT !["input"] = <<>>]
  /\ result' = NoResult
  /\ UNCHANGED <<compArg, compValidation, compConstruction, physVars, appVars>>

CallPhysicalToString ==
  /\ construction.created
  /\ result' = [method |-> "toString",
                value |-> PhysicalToString(construction.instance)]
  /\ UNCHANGED <<compArg, compValidation, compConstruction, heap, physVars, appVars>>

CallCompositionToString ==
  /\ compConstruction.created
  /\ result' = [method |-> "toString",
                value |-> CompositionToString(compConstruction.instance, heap)]
  /\ UNCHANGED <<compArg, compValidation, compConstruction, heap, physVars, appVars>>

NextMethods ==
  \/ CallGetDominantGas
  \/ CallGetAtmosphereColor
  \/ CallCalculateGreenhouseEffect
  \/ CallGetEffectiveTemperature
  \/ CallCanSupportLiquidWater
  \/ CallGetOceanColor
  \/ CallerEmptiesMapping
  \/ CallCalculateSurfaceGravity
  \/ CallCalculateEscapeVelocity
  \/ CallCalculateVolume
  \/ CallIsDensityConsistent
  \/ CallGetCalculatedProperties
  \/ CallPhysicalToString
  \/ CallCompositionToString

SpecMethods == InitMethods /\ [][NextMethods]_vars

(***************************************************************************)
(* PlanetBuilderApp (main.js)                                              *)
(***************************************************************************)
MaxEdits == 3

updateCalculatedValues(g, p, c, h) ==
  [g EXCEPT !.surfaceGravity = RoundTo(calculateSurfaceGravity(p), 2),
            !.escapeVelocity = RoundTo(calculateEscapeVelocity(p), 2),
            !.effectiveTemp = RoundTo(getEffectiveTemperature(c, h), 1)]

\* the controls object setupGUI builds, before the derived values are shown
setupGUI(p, c, h) ==
  [mass |-> p.mass, radius |-> p.radius, density |-> p.density,
   rotationRate |-> p.rotationRate, axialTilt |-> p.axialTilt,
   surfaceGravity |-> Zero, escapeVelocity |-> Zero,
   waterCoverage |-> c.water.coverage,
   temperature |-> c.surface.temperature,
   iceCaps |-> c.water.iceCaps,
   atmospherePressure |-> c.atmosphere.pressure,
   CO2 |-> OrElse(Get(h[c.atmosphere.composition], "CO2"), Num(4, -2)),
   effectiveTemp |-> Zero,
   preset |-> "Earth"]

\* physical sliders whose lower bound is 0 instead of the range minimum
PhysicalSliderValuesFromZero ==
  [mass |-> {Zero, Num(1, 30)},
   radius |-> {Zero, Num(100000, 0)},
   density |-> {Zero, Num(15000, 0)},
   rotationRate |-> {Zero, Num(1000, 0)},
   axialTilt |-> {Zero, Num(180, 0)}]

\* values the sliders deliver, inside the bounds given to dat.GUI
PhysicalSliderValues ==
  [mass |-> {Num(1, 20), Num(1, 30)},
   radius |-> {Num(100, 0), Num(100000, 0)},
   density |-> {Num(15000, 0)},
   rotationRate |-> {Num(1, -1)},
   axialTilt |-> {Zero, Num(180, 0)}]

CompositionSliderValues ==
  [waterCoverage |-> {Zero, Num(100, 0)},
   temperature |-> {Num(100, 0), Num(800, 0)},
   iceCaps |-> {Zero, Num(100, 0)},
   atmospherePressure |-> {Zero, Num(10, 0)},
   CO2 |-> {Zero, Num(50, 0), Num(100, 0)}]

PresetNames == {"Earth", "Mars", "Jupiter", "Moon"}

PhysicalPreset(name) ==
  CASE name = "Earth" -> EARTH
    [] name = "Mars" -> MARS
    [] name = "Jupiter" -> JUPITER
    [] name = "Moon" -> MOON

CompositionPreset(name) ==
  CASE name = "Earth" -> EARTH_COMPOSITION
    [] name = "Mars" -> MARS_COMPOSITION
    [] name = "Jupiter" -> EARTH_COMPOSITION
    [] name = "Moon" -> MARS_COMPOSITION

\* the sum of the entries other than CO2 and N2, in mapping order
RECURSIVE SumOthers(_, _)
SumOthers(acc, mapping) ==
  IF mapping = <<>> THEN acc
  ELSE SumOthers(IF mapping[1].gas # "CO2" /\ mapping[1].gas # "N2"
                   THEN Add(acc, mapping[1].pct) ELSE acc,
                 Tail(mapping))

\* the CO2 branch of onCompositionChange, on the mapping object it writes
SetCO2(mapping, value) ==
  LET withCO2 == Put(mapping, "CO2", value)
      others == SumOthers(Zero, withCO2)
  IN Put(withCO2, "N2", MathMax(Zero, Sub(Sub(Hundred, value), others)))

\* the app once init() has run: the Earth planet, its meshes, the controls
\* and the displayed derived values
init(p, made) ==
  /\ heap = made.heap
  /\ parameters = p
  /\ composition = made.instance
  /\ renderer = createPlanetMesh(NewRenderer, p, made.instance, made.heap)
  /\ guiControls = updateCalculatedValues(setupGUI(p, made.instance, made.heap),
                                          p, made.instance, made.heap)
  /\ uncaught = "none"
  /\ edits = 0
  /\ window = start(PlanetRendererNew(NoWindow, <<800, 600>>)).w
  /\ lifecycle = start(PlanetRendererNew(NoWindow, <<800, 600>>)).l
  /\ textureLoader = NewTextureLoader
  /\ PhysicalIdle
  /\ CompositionIdle

InitApp ==
  init(PhysicalParametersNew(
         ObjectArg(EARTH.mass, EARTH.radius, EARTH.density,
                   EARTH.rotationRate, EARTH.axialTilt)).instance,
       CompositionParametersNew(EARTH_COMPOSITION, InitialHeap))

\* a physical slider moves: dat.GUI stores the value in guiControls and calls
\* onParameterChange(param, value)
OnParameterChange(param, value) ==
  /\ edits < MaxEdits
  /\ LET p == [parameters EXCEPT ![param] = value]
         g == [guiControls EXCEPT ![param] = value]
     IN /\ parameters' = p
        /\ renderer' = IF param = "radius" THEN updatePlanetSize(renderer, value)
                       ELSE renderer
        /\ guiControls' = updateCalculatedValues(g, p, composition, heap)
  /\ uncaught' = "none"
  /\ edits' = edits + 1
  /\ UNCHANGED <<composition, heap, physVars, compVars, envVars>>

\* a composition slider moves: dat.GUI stores the value in guiControls and
\* calls onCompositionChange(param, value)
OnCompositionChange(param, value) ==
  /\ edits < MaxEdits
  /\ LET c == CASE param = "waterCoverage" ->
                     [composition EXCEPT !.water.coverage = value]
                [] param = "temperature" ->
                     [composition EXCEPT !.surface.temperature = value]
                [] param = "iceCaps" ->
                     [composition EXCEPT !.water.iceCaps = value]
                [] param = "atmospherePressure" ->
                     [composition EXCEPT !.atmosphere.pressure = value]
                [] OTHER -> composition
         h == IF param = "CO2"
                THEN [heap EXCEPT ![composition.atmosphere.composition] =
                                     SetCO2(@, value)]
                ELSE heap
         g == [guiControls EXCEPT ![param] = value]
     IN /\ composition' = c
        /\ heap' = h
        /\ renderer' = createPlanetMesh(renderer, parameters, c, h)
        /\ guiControls' = updateCalculatedValues(g, parameters, c, h)
  /\ uncaught' = "none"
  /\ edits' = edits + 1
  /\ UNCHANGED <<parameters, physVars, compVars, envVars>>

\* the preset menu changes: dat.GUI stores the name in guiControls.preset and
\* calls loadPreset(name); an error thrown by a constructor is not caught and
\* ends the handler where it is
loadPreset(name, physicalPreset, pnew, cnew) ==
  LET g0 == [guiControls EXCEPT !.preset = name]
  IN IF ~pnew.created
       THEN /\ uncaught' = pnew.threw
            /\ guiControls' = g0
            /\ UNCHANGED <<parameters, composition, heap, renderer>>
     ELSE IF ~cnew.created
       THEN /\ uncaught' = cnew.threw
            /\ parameters' = pnew.instance
            /\ guiControls' = g0
            /\ UNCHANGED <<composition, heap, renderer>>
     ELSE LET p == pnew.instance
              c == cnew.instance
              h == cnew.heap
              g1 == [g0 EXCEPT
                       !.mass = physicalPreset.mass,
                       !.radius = physicalPreset.radius,
                       !.density = physicalPreset.density,
                       !.rotationRate = physicalPreset.rotationRate,
                       !.axialTilt = physicalPreset.axialTilt,
                       !.waterCoverage = c.water.coverage,
                       !.temperature = c.surface.temperature,
                       !.iceCaps = c.water.iceCaps,
                       !.atmospherePressure = c.atmosphere.pressure,
                       !.CO2 = OrElse(Get(h[c.atmosphere.composition], "CO2"),
                                      Num(4, -2))]
          IN /\ uncaught' = "none"
             /\ parameters' = p
             /\ composition' = c
             /\ heap' = h
             /\ renderer' = createPlanetMesh(renderer, p, c, h)
             /\ guiControls' = updateCalculatedValues(g1, p, c, h)

PhysicalPresetArg(name) ==
  ObjectArg(PhysicalPreset(name).mass, PhysicalPreset(name).radius,
            PhysicalPreset(name).density, PhysicalPreset(name).rotationRate,
            PhysicalPreset(name).axialTilt)

LoadPreset(name) ==
  /\ edits < MaxEdits
  /\ loadPreset(name, PhysicalPreset(name),
                PhysicalParametersNew(PhysicalPresetArg(name)),
                CompositionParametersNew(CompositionPreset(name), heap))
  /\ edits' = edits + 1
  /\ UNCHANGED <<physVars, compVars, envVars>>

PhysicalEdit ==
  \E param \in DOMAIN PhysicalSliderValues :
    \E value \in PhysicalSliderValues[param] : OnParameterChange(param, value)

CompositionEdit ==
  \E param \in DOMAIN CompositionSliderValues :
    \E value \in CompositionSliderValues[param] : OnCompositionChange(param, value)

PresetLoad == \E name \in PresetNames : LoadPreset(name)

Next == PhysicalEdit \/ CompositionEdit \/ PresetLoad

Spec == InitApp /\ [][Next]_vars

(***************************************************************************)
(* PlanetRenderer on its own: the calls of start, stop and dispose, the    *)
(* browser running a pending animation frame, and the browser dispatching  *)
(* 'resize' while the container has one of two sizes                       *)
(***************************************************************************)
MaxFrames == 4

MaxDisposeCalls == 2

ContainerSizes == {<<800, 600>>, <<1024, 768>>}

restOfApp == <<parameters, composition, guiControls, uncaught, edits>>

Running == [w |-> window, l |-> lifecycle]

\* new PlanetRenderer('app') has returned
InitRenderer ==
  /\ \E size \in ContainerSizes :
       /\ window = PlanetRendererNew(NoWindow, size).w
       /\ lifecycle = PlanetRendererNew(NoWindow, size).l
  /\ renderer = NewRenderer
  /\ textureLoader = NewTextureLoader
  /\ parameters = NoInstance
  /\ composition = NoCompositionInstance
  /\ guiControls = NoGuiControls
  /\ uncaught = "none"
  /\ edits = 0
  /\ heap = InitialHeap
  /\ PhysicalIdle
  /\ CompositionIdle

Start ==
  /\ window.nextFrame <= MaxFrames
  /\ window' = start(Running).w
  /\ lifecycle' = start(Running).l
  /\ UNCHANGED <<renderer, textureLoader, restOfApp, heap, physVars, compVars>>

Stop ==
  /\ window' = stop(Running).w
  /\ lifecycle' = stop(Running).l
  /\ UNCHANGED <<renderer, textureLoader, restOfApp, heap, physVars, compVars>>

\* the browser takes a pending request off its list and runs its callback,
\* () => this.animate()
AnimationFrame ==
  /\ window.nextFrame <= MaxFrames
  /\ \E id \in window.frames :
       \E s \in {animate([w |-> [window EXCEPT !.frames = @ \ {id}],
                           l |-> lifecycle])} :
         /\ window' = s.w
         /\ lifecycle' = s.l
  /\ UNCHANGED <<renderer, textureLoader, restOfApp, heap, physVars, compVars>>

\* the browser dispatches 'resize': every registered listener runs, and each
\* is a () => this.onWindowResize() of this renderer
WindowResize ==
  /\ window.listeners # {}
  /\ \E size \in ContainerSizes : lifecycle' = onWindowResize(Running, size).l
  /\ UNCHANGED <<window, renderer, textureLoader, restOfApp, heap, physVars, compVars>>

\* createPlanetMesh for the Earth and for Mars
RendererCreatePlanetMesh ==
  /\ renderer.cloudMesh.materialDisposals <= MaxDisposeCalls
  /\ \E P \in {"Earth", "Mars"} :
       \E made \in {CompositionParametersNew(CompositionPreset(P), heap)} :
         renderer' = createPlanetMesh(renderer, PhysicalPreset(P), made.instance, heap)
  /\ UNCHANGED <<window, lifecycle, textureLoader, restOfApp, heap, physVars, compVars>>

Dispose ==
  /\ window.nextFunction <= MaxDisposeCalls + 1
  /\ window' = dispose(Running).w
  /\ lifecycle' = dispose(Running).l
  /\ renderer' = [renderer EXCEPT !.planetMesh = DisposeMesh(@),
                                  !.atmosphereMesh = DisposeMesh(@),
                                  !.cloudMesh = DisposeMesh(@)]
  /\ UNCHANGED <<textureLoader, restOfApp, heap, physVars, compVars>>

NextRenderer ==
  \/ Start
  \/ Stop
  \/ AnimationFrame
  \/ WindowResize
  \/ RendererCreatePlanetMesh
  \/ Dispose

SpecRenderer == InitRenderer /\ [][NextRenderer]_vars

(***************************************************************************)
(* PlanetTextureLoader on its own: calls of loadTexture, and the THREE     *)
(* loader finishing a load with a texture or with an error                 *)
(***************************************************************************)
MaxLoads == 3

InitTextures ==
  /\ textureLoader = NewTextureLoader
  /\ heap = InitialHeap
  /\ PhysicalIdle
  /\ CompositionIdle
  /\ parameters = NoInstance
  /\ composition = NoCompositionInstance
  /\ guiControls = NoGuiControls
  /\ renderer = NewRenderer
  /\ uncaught = "none"
  /\ edits = 0
  /\ window = NoWindow
  /\ lifecycle = NoLifecycle

\* result holds what the returned promise will settle with when it is
\* already known: the cached texture, or "load" for a load just started
LoadTexture(url) ==
  /\ textureLoader.cache[url] # 0 \/ textureLoader.loads[url] < MaxLoads
  /\ textureLoader' = loadTexture(textureLoader, url)
  /\ result' = [method |-> "loadTexture",
                value |-> [url |-> url,
                           texture |-> IF textureLoader.cache[url] # 0
                                         THEN textureLoader.cache[url]
                                         ELSE 0]]
  /\ UNCHANGED <<compArg, compValidation, compConstruction, heap, physVars,
                 parameters, composition, guiControls, renderer, uncaught, edits,
                 window, lifecycle>>

LoadCompletes(load) ==
  /\ textureLoader' = onLoad(textureLoader, load)
  /\ UNCHANGED <<compVars, heap, physVars,
                 parameters, composition, guiControls, renderer, uncaught, edits,
                 window, lifecycle>>

LoadFails(load) ==
  /\ textureLoader' = onError(textureLoader, load)
  /\ UNCHANGED <<compVars, heap, physVars,
                 parameters, composition, guiControls, renderer, uncaught, edits,
                 window, lifecycle>>

CallLoadTexture == \E url \in Urls : LoadTexture(url)

LoaderSucceeds == \E load \in textureLoader.pending : LoadCompletes(load)

LoaderFails == \E load \in textureLoader.pending : LoadFails(load)

NextTextures == CallLoadTexture \/ LoaderSucceeds \/ LoaderFails

SpecTextures == InitTextures /\ [][NextTextures]_vars

(***************************************************************************)
(* Properties                                                              *)
(***************************************************************************)
Contains(seq, x) == \E i \in 1..Len(seq) : seq[i] = x

Label(f) ==
  CASE f = "mass" -> "Mass"
    [] f = "radius" -> "Radius"
    [] f = "density" -> "Density"
    [] f = "rotationRate" -> "Rotation rate"
    [] f = "axialTilt" -> "Axial tilt"

NumberText(f) == Label(f) \o " must be a number"

PositiveText(f) == Label(f) \o " must be positive"

RangeText(f) ==
  CASE f = "mass" -> "Mass must be between 100000000000000000000 and 1e+30 kg"
    [] f = "radius" -> "Radius must be between 100 and 100000 km"
    [] f = "density" -> "Density must be between 500 and 15000 kg/m^3"
    [] f = "rotationRate" -> "Rotation rate must be between 0.1 and 1000 hours"
    [] f = "axialTilt" -> "Axial tilt must be between 0 and 180 degrees"

MessagesOf(f) == {NumberText(f), PositiveText(f), RangeText(f)}

\* v is a finite number inside [lo, hi]
InInterval(v, lo, hi) ==
  /\ IsFinite(v)
  /\ Compare(v, lo) >= 0
  /\ Compare(v, hi) <= 0

\* a field value the data model allows: a finite number inside its range
ValidField(f, v) == InInterval(v, PARAMETER_RANGES[f].min, PARAMETER_RANGES[f].max)

Validated == validation.threw # "not called"

Constructed == construction.threw # "not called"

\* C1: every PhysicalParameters instance the constructor returns has each of
\* its five fields a finite number inside its range-table interval.
C1_InstanceFieldsInRange ==
  construction.created =>
    \A f \in FieldNames : ValidField(f, construction.instance[f])

\* the percentages of the app's current atmosphere composition
CurrentGases == heap[composition.atmosphere.composition]

SumNear100(mapping) ==
  LET d == MathAbs(Sub(SumValues(mapping), Hundred))
  IN IsFinite(d) /\ Compare(d, Num(1, 0)) <= 0

\* C2: after any sequence of GUI composition edits and preset loads the
\* percentages of the app's current composition sum to within 1 of 100.
C2_CompositionSumsTo100 == SumNear100(CurrentGases)

\* C3: the preset tables are never mutated: the composition mapping of every
\* composition preset still equals its literal value (the other parts of the
\* tables are written by no handler and are definitions here).
C3_PresetsNeverMutated ==
  /\ heap["EARTH_COMPOSITION"] = EarthGases
  /\ heap["MARS_COMPOSITION"] = MarsGases
  /\ heap["VENUS_COMPOSITION"] = VenusGases

AllGasesInRange(mapping) ==
  \A i \in 1..Len(mapping) : InInterval(mapping[i].pct, Zero, Hundred)

\* C4: every CompositionParameters instance the constructor returns is fully
\* valid: every gas percentage, pressure, thickness, the water fields and the
\* surface fields are numbers inside their ranges.
C4_CompositionInstanceValid ==
  compConstruction.created =>
    LET c == compConstruction.instance
    IN /\ AllGasesInRange(heap[c.atmosphere.composition])
       /\ InInterval(c.atmosphere.pressure, Zero, Hundred)
       /\ InInterval(c.atmosphere.thickness, Zero, Num(1000, 0))
       /\ InInterval(c.water.coverage, Zero, Hundred)
       /\ InInterval(c.water.iceCaps, Zero, Hundred)
       /\ InInterval(c.water.depth, Zero, Hundred)
       /\ InInterval(c.surface.albedo, Zero, Num(1, 0))
       /\ InInterval(c.surface.temperature, Zero, Num(1000, 0))

\* C5: validatePhysicalParams never throws, whatever its argument (undefined
\* and null included), and returns isValid true exactly when errors is empty.
C5_ValidateNeverThrows ==
  Validated =>
    /\ validation.threw = "none"
    /\ validation.isValid <=> (validation.errors = <<>>)

PositiveFields == {"mass", "radius", "density", "rotationRate"}

\* C7: for mass, radius, density and rotationRate every numeric value <= 0,
\* exactly 0 included, gets '<Field> must be positive' and not '<Field> must
\* be a number'; axialTilt = 0 gets no message.
C7_NonPositiveReportedAsPositive ==
  (Validated /\ validation.threw = "none") =>
    /\ \A f \in PositiveFields :
         (TypeofNumber(params[f]) /\ params[f].t # "NaN"
            /\ Compare(params[f], Zero) <= 0) =>
           /\ Contains(validation.errors, PositiveText(f))
           /\ ~Contains(validation.errors, NumberText(f))
    /\ params.axialTilt = Zero =>
         \A msg \in MessagesOf("axialTilt") : ~Contains(validation.errors, msg)

\* C8: for each of the five fields '<Field> must be a number' is reported
\* exactly when the field is absent, not of number type, or not finite.
C8_NotANumberReported ==
  (Validated /\ validation.threw = "none") =>
    \A f \in FieldNames :
      Contains(validation.errors, NumberText(f)) <=> ~IsFinite(params[f])

IsInvalid(f) == ~ValidField(f, params[f])

\* C9: errors has exactly one message for each invalid field and none for a
\* valid field, in the order mass, radius, density, rotationRate, axialTilt.
C9_OneMessagePerInvalidField ==
  (Validated /\ validation.threw = "none") =>
    LET invalid == SelectSeq(PhysicalFields, IsInvalid)
    IN /\ Len(validation.errors) = Len(invalid)
       /\ \A i \in 1..Len(invalid) : validation.errors[i] \in MessagesOf(invalid[i])

\* C10: for each field a positive finite value gets the range message (which
\* names min, max and the unit) exactly when it is below min or above max; a
\* value equal to min or max gets no message for its field.
C10_RangeCheckInclusive ==
  (Validated /\ validation.threw = "none") =>
    \A f \in FieldNames :
      (IsFinite(params[f]) /\ Compare(params[f], Zero) > 0) =>
        /\ Contains(validation.errors, RangeText(f))
             <=> (\/ Compare(params[f], PARAMETER_RANGES[f].min) < 0
                  \/ Compare(params[f], PARAMETER_RANGES[f].max) > 0)
        /\ ValidField(f, params[f]) =>
             \A msg \in MessagesOf(f) : ~Contains(validation.errors, msg)

\* mass 1e40 rejected with the range message while radius 100 (its minimum)
\* is accepted
C10_Witness ==
  /\ Validated
  /\ params.mass = Num(1, 40)
  /\ params.radius = PARAMETER_RANGES.radius.min
  /\ validation.errors = <<RangeText("mass")>>

\* C11: construction is a round trip with no transformation: for every input
\* that passes validation, each preset table included (which validates with
\* zero errors), the constructor succeeds, the five fields of the instance
\* equal the input's, and no other key of the input is stored.
C11_ConstructionRoundTrip ==
  /\ (Validated /\ params \in PresetInputs) =>
        (validation.isValid /\ validation.errors = <<>>)
  /\ (Constructed /\ Validated /\ validation.threw = "none" /\ validation.isValid) =>
        /\ construction.created
        /\ construction.threw = "none"
        /\ DOMAIN construction.instance = FieldNames
        /\ \A f \in FieldNames : construction.instance[f] = params[f]

\* the MOON table, which has the keys gravity and escapeVelocity, constructed
C11_Witness ==
  /\ Validated
  /\ construction.created
  /\ "gravity" \in DOMAIN params
  /\ params.escapeVelocity = MOON.escapeVelocity
  /\ construction.instance.radius = MOON.radius

CompositionValidated == compValidation.threw # "not called"

\* the argument of the validator names a composition mapping object
MappingGiven ==
  compArg.atmosphere.present /\ compArg.atmosphere.composition # NoComposition

SumText(mapping) ==
  "Atmospheric composition must sum to 100% (currently "
    \o ToFixed(SumValues(mapping), 1) \o "%)"

\* C13: validateCompositionParams appends the composition-sum error exactly
\* when the sum of the mapping's values differs from 100 by more than 1; a
\* mapping summing to 99, 100 or 101 gets no sum error, one summing to 90 does.
C13_SumErrorBeyondTolerance ==
  (CompositionValidated /\ MappingGiven) =>
    LET mapping == heap[compArg.atmosphere.composition]
        sum == SumValues(mapping)
    IN /\ IsFinite(sum) =>
            (Contains(compValidation.errors, SumText(mapping))
               <=> ~SumNear100(mapping))
       /\ (sum \in {Num(99, 0), Num(100, 0), Num(101, 0)}) =>
            ~Contains(compValidation.errors, SumText(mapping))

\* a mapping summing to 90 rejected with the sum error as its only message
C13_Witness ==
  /\ CompositionValidated
  /\ SumValues(heap["input"]) = Num(90, 0)
  /\ compValidation.errors =
       <<"Atmospheric composition must sum to 100% (currently 90.0%)">>

\* v is a number below lo or above hi
OutOfRange(v, lo, hi) ==
  TypeofNumber(v) /\ v.t # "NaN" /\ (Compare(v, lo) < 0 \/ Compare(v, hi) > 0)

\* the message of a range violation, if there is one
RangeNote(v, lo, hi, text) == IF OutOfRange(v, lo, hi) THEN <<text>> ELSE <<>>

\* the message of a key that must be present and in range
RequiredNote(v, lo, hi, name, unit) ==
  IF v = Undefined THEN <<"Atmospheric " \o name \o " is required">>
  ELSE RangeNote(v, lo, hi, "Atmospheric " \o name \o " must be between "
                              \o NumberToString(lo) \o " and "
                              \o NumberToString(hi) \o " " \o unit)

GasOutOfRange(entry) == OutOfRange(entry.pct, Zero, Hundred)

GasNotes(mapping) ==
  LET bad == SelectSeq(mapping, GasOutOfRange)
  IN [i \in 1..Len(bad) |-> bad[i].gas \o " percentage must be between 0 and 100"]

ExpectedAtmosphereErrors ==
  LET a == compArg.atmosphere
  IN IF ~a.present THEN <<"Atmosphere parameters are required">>
     ELSE (IF a.composition = NoComposition THEN <<>>
           ELSE LET mapping == heap[a.composition]
                IN (IF IsFinite(SumValues(mapping)) /\ ~SumNear100(mapping)
                      THEN <<SumText(mapping)>> ELSE <<>>)
                   \o GasNotes(mapping))
          \o RequiredNote(a.pressure, Zero, Hundred, "pressure", "atm")
          \o RequiredNote(a.thickness, Zero, Num(1000, 0), "thickness", "km")

ExpectedWaterErrors ==
  LET w == compArg.water
  IN IF ~w.present THEN <<"Water parameters are required">>
     ELSE RangeNote(w.coverage, Zero, Hundred,
                    "Water coverage must be between 0 and 100%")
          \o RangeNote(w.depth, Zero, Hundred,
                       "Water depth must be between 0 and 100 km")
          \o RangeNote(w.iceCaps, Zero, Hundred,
                       "Ice caps must be between 0 and 100%")

ExpectedSurfaceErrors ==
  LET u == compArg.surface
  IN IF ~u.present THEN <<"Surface parameters are required">>
     ELSE RangeNote(u.albedo, Zero, Num(1, 0), "Albedo must be between 0 and 1")
          \o RangeNote(u.temperature, Zero, Num(1000, 0),
                       "Temperature must be between 0 and 1000 K")

CompositionConstructed == compConstruction.threw # "not called"

\* every field of the argument other than the mapping is a number in range
OtherFieldsValid ==
  /\ compArg.atmosphere.present /\ compArg.water.present /\ compArg.surface.present
  /\ InInterval(compArg.atmosphere.pressure, Zero, Hundred)
  /\ InInterval(compArg.atmosphere.thickness, Zero, Num(1000, 0))
  /\ InInterval(compArg.water.coverage, Zero, Hundred)
  /\ InInterval(compArg.water.depth, Zero, Hundred)
  /\ InInterval(compArg.water.iceCaps, Zero, Hundred)
  /\ InInterval(compArg.surface.albedo, Zero, Num(1, 0))
  /\ InInterval(compArg.surface.temperature, Zero, Num(1000, 0))

\* C15: with atmosphere.composition omitted and the other fields valid,
\* construction succeeds and stores {N2:78, O2:21, Ar:0.93, CO2:0.04,
\* other:0.03}, whose sum is within 1 of 100; a mapping that is provided is
\* validated (construction succeeds only if the validator accepts it) and is
\* the one stored, unchanged, never the default.
C15_DefaultOnlyWhenOmitted ==
  CompositionConstructed =>
    /\ (OtherFieldsValid /\ ~MappingGiven) =>
          /\ compConstruction.created
          /\ heap[compConstruction.instance.atmosphere.composition]
               = <<Entry("N2", Num(78, 0)), Entry("O2", Num(21, 0)),
                   Entry("Ar", Num(93, -2)), Entry("CO2", Num(4, -2)),
                   Entry("other", Num(3, -2))>>
          /\ SumNear100(heap[compConstruction.instance.atmosphere.composition])
    /\ MappingGiven =>
          /\ compConstruction.created
               <=> validateCompositionParams(compArg, heap).isValid
          /\ compConstruction.created =>
               /\ compConstruction.instance.atmosphere.composition
                    = compArg.atmosphere.composition
               /\ compConstruction.instance.atmosphere.composition # DefaultId
          /\ heap[DefaultId] = <<>>

\* a construction without a mapping that stored the default
C15_Witness ==
  /\ compConstruction.created
  /\ ~MappingGiven
  /\ compConstruction.instance.atmosphere.composition = DefaultId
  /\ Get(heap[DefaultId], "other") = Num(3, -2)

\* the mapping object of the instance the methods are called on
InstanceGases == heap[compConstruction.instance.atmosphere.composition]

\* C16: getDominantGas returns the key with the largest percentage, of
\* several keys with that percentage the first in insertion order, 'unknown'
\* for an empty mapping and 'N2' for the Earth table.
C16_DominantGasFirstLargest ==
  (result.method = "getDominantGas") =>
    LET m == InstanceGases
        I == {i \in 1..Len(m) : JsGt(m[i].pct, Zero)}
    IN /\ m = <<>> => result.value = "unknown"
       /\ m = EarthGases => result.value = "N2"
       /\ I # {} =>
            \E i \in I :
              /\ result.value = m[i].gas
              /\ \A j \in I : Compare(m[j].pct, m[i].pct) <= 0
              /\ \A j \in I : j < i => Compare(m[j].pct, m[i].pct) < 0

\* {O2: 50, N2: 50}: the tie goes to O2, the key inserted first
C16_Witness ==
  /\ result.method = "getDominantGas"
  /\ InstanceGases = <<Entry("O2", Num(50, 0)), Entry("N2", Num(50, 0))>>
  /\ result.value = "O2"

\* the gas is present in the instance's mapping with a number above n
GasAbove(gas, n) ==
  LET v == Get(InstanceGases, gas)
  IN TypeofNumber(v) /\ v.t # "NaN" /\ Compare(v, Num(n, 0)) > 0

\* the gas is absent (or null), or a number below n
GasAbsentOrBelow(gas, n) ==
  LET v == Get(InstanceGases, gas)
  IN \/ v \in {Undefined, Null}
     \/ TypeofNumber(v) /\ v.t # "NaN" /\ Compare(v, Num(n, 0)) < 0

LightBlue == <<Num(3, -1), Num(6, -1), Num(1, 0)>>

OrangeRed == <<Num(1, 0), Num(5, -1), Num(3, -1)>>

Orange == <<Num(1, 0), Num(7, -1), Num(4, -1)>>

Amber == <<Num(1, 0), Num(8, -1), Num(5, -1)>>

PaleBlue == <<Num(5, -1), Num(7, -1), Num(9, -1)>>

\* C17: getAtmosphereColor returns the colour of the first matching rule of:
\* N2 > 60 and O2 > 15, light blue; CO2 > 50, orange-red; CH4 > 30, orange;
\* N2 > 80 and O2 absent or below 5, amber; otherwise pale blue. An absent
\* gas satisfies no '>' test and every component lies in [0,1].
C17_FirstMatchingColor ==
  (result.method = "getAtmosphereColor") =>
    /\ result.value =
         (IF GasAbove("N2", 60) /\ GasAbove("O2", 15) THEN LightBlue
          ELSE IF GasAbove("CO2", 50) THEN OrangeRed
          ELSE IF GasAbove("CH4", 30) THEN Orange
          ELSE IF GasAbove("N2", 80) /\ GasAbsentOrBelow("O2", 5) THEN Amber
          ELSE PaleBlue)
    /\ Len(result.value) = 3
    /\ \A i \in 1..3 : InInterval(result.value[i], Zero, Num(1, 0))

\* {CO2: 60, CH4: 40} matches the CO2 rule and the methane rule: orange-red
C17_Witness ==
  /\ result.method = "getAtmosphereColor"
  /\ Get(InstanceGases, "CO2") = Num(60, 0)
  /\ Get(InstanceGases, "CH4") = Num(40, 0)
  /\ result.value = OrangeRed

\* the pressure of the instance as a number, and its effective temperature
InstancePressure == ToNumber(compConstruction.instance.atmosphere.pressure)

InstanceTemperature == getEffectiveTemperature(compConstruction.instance, heap)

\* T lies in the band [273 - (1 - p) * 10, 373 + (p - 1) * 20]
InLiquidBand(T, p) ==
  /\ IsFinite(T)
  /\ IsFinite(p)
  /\ Compare(T, Sub(Num(273, 0), Mul(Sub(Num(1, 0), p), Num(10, 0)))) >= 0
  /\ Compare(T, Add(Num(373, 0), Mul(Sub(p, Num(1, 0)), Num(20, 0)))) <= 0

\* C18: canSupportLiquidWater returns true exactly when the effective
\* temperature T and the pressure p satisfy 273 - (1-p)*10 <= T <=
\* 373 + (p-1)*20 and p > 0.006; it is false whenever p <= 0.006, as for the
\* instance built from MARS_COMPOSITION, and true for EARTH_COMPOSITION.
C18_LiquidWaterBand ==
  (result.method = "canSupportLiquidWater") =>
    /\ result.value <=>
         (/\ InLiquidBand(InstanceTemperature, InstancePressure)
          /\ Compare(InstancePressure, Num(6, -3)) > 0)
    /\ (IsFinite(InstancePressure) /\ Compare(InstancePressure, Num(6, -3)) <= 0)
         => ~result.value
    /\ compArg = MARS_COMPOSITION => ~result.value
    /\ compArg = EARTH_COMPOSITION => result.value

\* pressure exactly 0.006 with a temperature inside the band: false
C18_Witness ==
  /\ result.method = "canSupportLiquidWater"
  /\ InstancePressure = Num(6, -3)
  /\ InLiquidBand(InstanceTemperature, InstancePressure)
  /\ result.value = FALSE

GasFraction(gas) ==
  LET v == Get(InstanceGases, gas)
  IN IF TypeofNumber(v) /\ v.t # "NaN" THEN ShiftDown(v, 2) ELSE Zero

\* (CO2/100*30 + CH4/100*20) * ln(p), to the precision of MathLog
GreenhouseAt(p) ==
  RoundTo(Mul(Add(Mul(GasFraction("CO2"), Num(30, 0)),
                  Mul(GasFraction("CH4"), Num(20, 0))),
              MathLog(p)), 4)

\* C20: the pressure floor keeps calculateGreenhouseEffect finite: for
\* every pressure p <= 0.01, including p = 0, the result equals the result
\* for p = 0.01 with the same composition (never NaN or an infinity), and
\* for p > 0.01 it is (CO2/100*30 + CH4/100*20) * ln(p), an absent CO2 or
\* CH4 counted as 0.
C20_PressureFloor ==
  (result.method = "calculateGreenhouseEffect") =>
    /\ JsLe(InstancePressure, Num(1, -2)) =>
         /\ IsFinite(result.value)
         /\ result.value = GreenhouseAt(Num(1, -2))
    /\ JsGt(InstancePressure, Num(1, -2)) =>
         /\ IsFinite(result.value)
         /\ result.value = GreenhouseAt(InstancePressure)

\* pressure 0 with the Mars mapping (CO2 95.32, no CH4): the value at 0.01
C20_Witness ==
  /\ result.method = "calculateGreenhouseEffect"
  /\ InstancePressure = Zero
  /\ InstanceGases = MarsGases
  /\ Get(InstanceGases, "CH4") = Undefined
  /\ result.value = GreenhouseAt(Num(1, -2))
  /\ Sign(result.value) = -1

\* the frozen test of getOceanColor on the instance
Frozen ==
  \/ JsLt(InstanceTemperature, Num(273, 0))
  \/ JsGt(compConstruction.instance.water.iceCaps, Num(80, 0))

InstanceDepth == compConstruction.instance.water.depth

\* C21: getOceanColor returns the near-white value when the effective
\* temperature is below 273 or iceCaps is above 80, whatever the depth;
\* otherwise dark blue when depth > 5; otherwise medium blue when depth > 1;
\* otherwise light blue. The comparisons are strict: depth 5 is medium blue,
\* depth 1 is light blue, iceCaps 80 and temperature 273 are not frozen.
C21_OceanColorTable ==
  (result.method = "getOceanColor") =>
    /\ Frozen => result.value = 14544639
    /\ (~Frozen /\ JsGt(InstanceDepth, Num(5, 0))) => result.value = 662074
    /\ (~Frozen /\ ~JsGt(InstanceDepth, Num(5, 0)) /\ JsGt(InstanceDepth, Num(1, 0)))
         => result.value = 1723770
    /\ (~Frozen /\ ~JsGt(InstanceDepth, Num(1, 0))) => result.value = 4885946
    /\ (/\ InstanceTemperature = Num(273, 0)
        /\ compConstruction.instance.water.iceCaps = Num(80, 0))
         => /\ InstanceDepth = Num(5, 0) => result.value = 1723770
            /\ InstanceDepth = Num(1, 0) => result.value = 4885946

\* a deep ocean (depth 100) under ice caps of 80.1 at 288 K: near-white
C21_Witness ==
  /\ result.method = "getOceanColor"
  /\ InstanceDepth = Num(100, 0)
  /\ compConstruction.instance.water.iceCaps = Num(801, -1)
  /\ InstanceTemperature = Num(288, 0)
  /\ result.value = 14544639

\* the constructor's argument is the preset table P
BuiltFrom(P) == params = [kind |-> "object"] @@ P

\* |v - ref| <= tol
Within(v, ref, tol) == IsFinite(v) /\ JsLe(MathAbs(Sub(v, ref)), tol)

\* lo <= v <= hi
Between(v, lo, hi) == IsFinite(v) /\ JsGe(v, lo) /\ JsLe(v, hi)

\* C22: on the instance built from a physical preset, calculateSurfaceGravity()
\* is within 0.1 of 9.81 for EARTH, 3.71 for MARS, 1.62 for MOON and between
\* 20 and 30 for JUPITER, and calculateEscapeVelocity() is within 0.1 of 11.2
\* for EARTH, 5.03 for MARS, 2.38 for MOON and between 55 and 65 for JUPITER.
C22_PresetKnownValues ==
  /\ (result.method = "calculateSurfaceGravity") =>
       /\ BuiltFrom(EARTH) => Within(result.value, Num(981, -2), Num(1, -1))
       /\ BuiltFrom(MARS) => Within(result.value, Num(371, -2), Num(1, -1))
       /\ BuiltFrom(MOON) => Within(result.value, Num(162, -2), Num(1, -1))
       /\ BuiltFrom(JUPITER) => Between(result.value, Num(20, 0), Num(30, 0))
  /\ (result.method = "calculateEscapeVelocity") =>
       /\ BuiltFrom(EARTH) => Within(result.value, Num(112, -1), Num(1, -1))
       /\ BuiltFrom(MARS) => Within(result.value, Num(503, -2), Num(1, -1))
       /\ BuiltFrom(MOON) => Within(result.value, Num(238, -2), Num(1, -1))
       /\ BuiltFrom(JUPITER) => Between(result.value, Num(55, 0), Num(65, 0))

\* the gravity of the Mars preset has been computed: 3.728
C22_Witness ==
  /\ BuiltFrom(MARS)
  /\ result.method = "calculateSurfaceGravity"
  /\ result.value = Num(3728, -3)

\* the field of the constructor's argument lies inside its own range
InOwnRange(f) ==
  /\ TypeofNumber(params[f])
  /\ IsFinite(params[f])
  /\ Compare(params[f], PARAMETER_RANGES[f].min) >= 0
  /\ Compare(params[f], PARAMETER_RANGES[f].max) <= 0

\* |mass / ((4/3) * pi * radius^3 * 1e9) - density| / density
DensityDifference ==
  LET p == construction.instance
      sphere == Times(Times(Div(Num(4, 0), Num(3, 0)), MathPI),
                      Times(Times(p.radius, p.radius), p.radius))
      calculated == Div(p.mass, Times(sphere, Num(1, 9)))
  IN Div(MathAbs(Minus(calculated, p.density)), p.density)

\* C23: density consistency is a diagnostic, not a construction constraint:
\* for any mass, radius and density each inside its own range the
\* constructor succeeds whether or not they agree, and isDensityConsistent()
\* is true exactly when |mass/((4/3)*pi*radius^3*1e9) - density| / density
\* <= 0.01; it is true for the EARTH preset.
C23_DensityDiagnostic ==
  /\ (params.kind = "object" /\ \A f \in FieldNames : InOwnRange(f))
       => construction.created
  /\ (result.method = "isDensityConsistent") =>
       /\ result.value <=> (IsFinite(DensityDifference)
                             /\ Compare(DensityDifference, Num(1, -2)) <= 0)
       /\ BuiltFrom(EARTH) => result.value

\* the largest mass with the smallest radius and density: constructed, and
\* reported inconsistent
C23_Witness ==
  /\ params.kind = "object"
  /\ params.mass = Num(1, 30)
  /\ params.radius = Num(100, 0)
  /\ params.density = Num(500, 0)
  /\ construction.created
  /\ result.method = "isDensityConsistent"
  /\ result.value = FALSE

\* what the method named in result returns when called again now
CalledAgain ==
  LET p == construction.instance
      c == compConstruction.instance
  IN CASE result.method = "calculateSurfaceGravity" -> calculateSurfaceGravity(p)
       [] result.method = "calculateEscapeVelocity" -> calculateEscapeVelocity(p)
       [] result.method = "calculateVolume" -> calculateVolume(p)
       [] result.method = "isDensityConsistent" -> isDensityConsistent(p)
       [] result.method = "getCalculatedProperties" -> getCalculatedProperties(p)
       [] result.method = "toString" ->
            IF construction.created THEN PhysicalToString(p)
            ELSE CompositionToString(c, heap)
       [] result.method = "getDominantGas" -> getDominantGas(c, heap)
       [] result.method = "getAtmosphereColor" -> getAtmosphereColor(c, heap)
       [] result.method = "calculateGreenhouseEffect" -> calculateGreenhouseEffect(c, heap)
       [] result.method = "getEffectiveTemperature" -> getEffectiveTemperature(c, heap)
       [] result.method = "canSupportLiquidWater" -> canSupportLiquidWater(c, heap)
       [] result.method = "getOceanColor" -> getOceanColor(c, heap)

\* the aggregate has exactly the four keys, each the individual method's result
AggregateOfFour ==
  (result.method = "getCalculatedProperties") =>
    /\ DOMAIN result.value =
         {"surfaceGravity", "escapeVelocity", "volume", "densityConsistent"}
    /\ result.value.surfaceGravity = calculateSurfaceGravity(construction.instance)
    /\ result.value.escapeVelocity = calculateEscapeVelocity(construction.instance)
    /\ result.value.volume = calculateVolume(construction.instance)
    /\ result.value.densityConsistent = isDensityConsistent(construction.instance)

\* a step that returns from a read call leaves both instances and the
\* mapping objects as they were
ReadCallKeepsFields ==
  (result'.method # "none") =>
    /\ construction' = construction
    /\ compConstruction' = compConstruction
    /\ heap' = heap

ShowsPreset(name, par, comp, gui, h) ==
  LET P == PhysicalPreset(name)
      C == CompositionPreset(name)
  IN /\ \A f \in FieldNames : par[f] = P[f] /\ gui[f] = P[f]
     /\ comp.atmosphere.composition = C.atmosphere.composition
     /\ comp.atmosphere.pressure = C.atmosphere.pressure
     /\ comp.atmosphere.thickness = C.atmosphere.thickness
     /\ comp.water.coverage = C.water.coverage
     /\ comp.water.depth = C.water.depth
     /\ comp.water.iceCaps = C.water.iceCaps
     /\ comp.surface.albedo = C.surface.albedo
     /\ comp.surface.temperature = C.surface.temperature
     /\ gui.waterCoverage = C.water.coverage
     /\ gui.temperature = C.surface.temperature
     /\ gui.iceCaps = C.water.iceCaps
     /\ gui.atmospherePressure = C.atmosphere.pressure
     /\ gui.surfaceGravity = RoundTo(calculateSurfaceGravity(par), 2)
     /\ gui.escapeVelocity = RoundTo(calculateEscapeVelocity(par), 2)
     /\ gui.effectiveTemp = RoundTo(getEffectiveTemperature(comp, h), 1)

\* nothing but the preset selector has changed
LeftAsBefore ==
  /\ UNCHANGED <<parameters, composition, heap, renderer>>
  /\ guiControls' = [guiControls EXCEPT !.preset = guiControls'.preset]

\* C25: loadPreset is all-or-nothing: after any sequence of GUI edits, a
\* loadPreset(name) either leaves parameters, composition, GUI values and the
\* displayed gravity, escape velocity and effective temperature all
\* corresponding to the named preset, or leaves all of them as they were; the
\* app never holds the new physical parameters with the previous composition.
C25_LoadPresetAllOrNothing ==
  [][\A name \in PresetNames :
       LoadPreset(name) =>
         \/ ShowsPreset(name, parameters', composition', guiControls', heap')
         \/ LeftAsBefore]_vars

\* the instance's surface temperature, pressure and gas percentages are
\* numbers inside their ranges and the percentages sum to within 1 of 100
ConstructibleState ==
  /\ InInterval(compConstruction.instance.surface.temperature, Zero, Num(1000, 0))
  /\ InInterval(compConstruction.instance.atmosphere.pressure, Zero, Hundred)
  /\ AllGasesInRange(InstanceGases)
  /\ SumNear100(InstanceGases)

\* C26: for every constructible CompositionParameters state (temperature in
\* [0,1000], pressure in [0,100], valid composition) getEffectiveTemperature()
\* is a non-negative Kelvin value.
C26_EffectiveTemperatureNonNegative ==
  (result.method = "getEffectiveTemperature" /\ ConstructibleState) =>
    /\ IsFinite(result.value)
    /\ Sign(result.value) >= 0

\* the field is null, or a mesh that is in the scene with neither its
\* geometry nor its material disposed
NullOrLive(mesh) ==
  \/ mesh.null
  \/ /\ mesh.inScene
     /\ mesh.geometryDisposals = 0
     /\ mesh.materialDisposals = 0

\* C27: after every createPlanetMesh call, in any sequence of createPlanetMesh
\* and updatePlanetSize calls, each of planetMesh, atmosphereMesh and
\* cloudMesh is null or a mesh in the scene whose geometry and material are
\* not disposed, no mesh is disposed twice, and when the composition's
\* pressure is <= 0.1 the renderer holds no cloud mesh.
C27_MeshesNullOrLive ==
  /\ \A kind \in {"planetMesh", "atmosphereMesh", "cloudMesh"} :
       /\ NullOrLive(renderer[kind])
       /\ renderer[kind].geometryDisposals <= 1
       /\ renderer[kind].materialDisposals <= 1
  /\ JsLe(composition.atmosphere.pressure, Num(1, -1)) => renderer.cloudMesh.null

\* C28: after dispose() returns the renderer is fully detached: no animation
\* frame is pending and the 'resize' listener the constructor registered is
\* no longer registered, so a later resize event never calls onWindowResize
\* on the disposed renderer (it leaves the size it last applied alone).
C28_DisposeDetaches ==
  [][/\ Dispose => (window'.frames = {} /\ window'.listeners = {})
     /\ lifecycle.disposed => lifecycle'.size = lifecycle.size]_vars

\* at most one request is pending, it is the one animationId names, and
\* none is pending while animationId is null
OneFramePending ==
  /\ Cardinality(window.frames) <= 1
  /\ lifecycle.animationId = 0 => window.frames = {}
  /\ lifecycle.animationId # 0 => window.frames = {lifecycle.animationId}

\* C29: for any interleaving of start(), stop() and animation-frame
\* callbacks at most one animation frame request is pending at any time;
\* start() while the loop is running schedules nothing new, and after stop()
\* no frame callback can run until the next start().
C29_SingleAnimationLoop ==
  /\ []OneFramePending
  /\ [][/\ (Start /\ lifecycle.animationId # 0) => window' = window
        /\ Stop => (window'.frames = {} /\ lifecycle'.animationId = 0)]_vars

\* started, one frame has run and requested the next, stopped, started again
C29_Witness ==
  /\ lifecycle.animationId = 3
  /\ window.frames = {3}
  /\ ~lifecycle.disposed

\* C30: loadTexture loads each URL at most once: for any interleaving of
\* loadTexture calls and load-completion callbacks loader.load is invoked at
\* most once per URL (a call for a URL whose first load is still in flight
\* starts no other load), and once a URL is cached every later call returns
\* the cached texture.
C30_LoadsOncePerUrl ==
  [][\A url \in Urls :
       LoadTexture(url) =>
         /\ textureLoader'.loads[url] <= 1
         /\ (\E load \in textureLoader.pending : load.url = url)
              => textureLoader'.loads = textureLoader.loads
         /\ textureLoader.cache[url] # 0 =>
              /\ result'.value.texture = textureLoader.cache[url]
              /\ textureLoader'.loads = textureLoader.loads]_vars

====
